---------------------------- MODULE Spec2Model ----------------------------
(***************************************************************************)
(* A model of the DataProcessor pipeline of the CIA World Factbook         *)
(* dashboard (src/src/utils/data_processor.py): cleaning of unit-suffixed  *)
(* numeric strings, the left join of the seven tables on Country, the      *)
(* continent lookup, the GDP binning and the load-once lifecycle.          *)
(*                                                                         *)
(* Text is modelled as a sequence of one-character strings.  A cell of a   *)
(* series is a record with a tag t: "str" (text s), "num" (the decimal     *)
(* m * 10^e, kept canonical), "inf" (m = 1 or -1) or "nan" (null).         *)
(* Binary floating point rounding is abstracted away: a parsed number is   *)
(* the exact decimal the text denotes.                                     *)
(***************************************************************************)
EXTENDS Integers, Sequences, FiniteSets, TLC

VARIABLES
    series,      \* clean_numeric_column: the series passed in
    cleaned,     \* clean_numeric_column: the series returned
    cpc,         \* clean_numeric_column: "ready" before the call, "done" after
    origin,      \* the catalogue index of the first cell of series (0: numeric)
    country,     \* _classify_continent: the name passed in
    continent,   \* _classify_continent: the value returned
    kpc,         \* _classify_continent: "ready" before the call, "done" after
    files,       \* the seven CSV files under data_path
    datasets,    \* self.datasets: the items of the dict, <<>> when empty
    merged_data, \* self.merged_data: <<>> for None, else <<table>>
    loads,       \* how many times load_all_datasets has run
    merges,      \* how many times merge_datasets has built the merged table
    log,         \* the loads and merges in the order they happened
    calls,       \* how many public methods have been called
    result,      \* the last call: its name and the value it returned
    saved,       \* what save_processed_data last wrote: <<>>, or <<files>>
    selected_country,   \* the selected-country store: <<>> for None, else <<name>>
    selected_countries, \* the selected-countries store: a list of names
    countries_selector, \* the value of the countries-selector dropdown
    click,       \* the clickData store_selected_country last received
    prevented,   \* whether that invocation raised PreventUpdate
    sync,        \* sync_comparison_countries: "idle", "pending" once
                 \* selected-countries was written, "done" or "no_update"
    entry,       \* the script that python runs: "run_app.py" or "app.py"
    env,         \* the HOST and PORT that src/config.py reads
    rpc,         \* where the run is: "start", "import", "load", "build",
                 \* "guard", "serving", "imported", "except", "exited"
    server,      \* <<>>, or <<[host, port]>> once app.run_server is invoked
    exit_code,   \* <<>> while the process runs, else <<code>>
    metrics_info, \* app.py: what get_metric_info returned at startup
    country_list, \* app.py: what get_country_list returned at startup
    last         \* the last callback invoked and how it ended

cleanVars == <<series, cleaned, cpc, origin>>
continentVars == <<country, continent, kpc>>
processorVars == <<files, datasets, merged_data, loads, merges, log, calls,
                   result, saved>>
selectVars == <<selected_country, selected_countries, countries_selector,
                click, prevented, sync>>
appVars == <<entry, env, rpc, server, exit_code, metrics_info, country_list,
             last>>
vars == <<cleanVars, continentVars, processorVars, selectVars, appVars>>

-----------------------------------------------------------------------------
(* Cells *)

Str(s) == [t |-> "str", s |-> s, m |-> 0, e |-> 0]
NaN == [t |-> "nan", s |-> <<>>, m |-> 0, e |-> 0]
Inf(sign) == [t |-> "inf", s |-> <<>>, m |-> sign, e |-> 0]

RECURSIVE Canon(_, _)
\* the canonical form of the decimal m * 10^e: no trailing zero in m
Canon(m, e) ==
    IF m = 0 THEN [t |-> "num", s |-> <<>>, m |-> 0, e |-> 0]
    ELSE IF m % 10 = 0 THEN Canon(m \div 10, e + 1)
    ELSE [t |-> "num", s |-> <<>>, m |-> m, e |-> e]

Num(m, e) == Canon(m, e)

RECURSIVE Pow10(_)
Pow10(n) == IF n = 0 THEN 1 ELSE 10 * Pow10(n - 1)

IsNumber(c) == c.t \in {"num", "inf"}
IsNull(c) == c.t = "nan"

-----------------------------------------------------------------------------
(* Text *)

Digits == <<"0", "1", "2", "3", "4", "5", "6", "7", "8", "9">>
IsDigit(c) == \E i \in 1..10 : Digits[i] = c
DigitVal(c) == (CHOOSE i \in 1..10 : Digits[i] = c) - 1
IsSpace(c) == c = " "

UpperCase == <<"A", "B", "C", "D", "E", "F", "G", "H", "I", "J", "K", "L", "M",
               "N", "O", "P", "Q", "R", "S", "T", "U", "V", "W", "X", "Y", "Z">>
LowerCase == <<"a", "b", "c", "d", "e", "f", "g", "h", "i", "j", "k", "l", "m",
               "n", "o", "p", "q", "r", "s", "t", "u", "v", "w", "x", "y", "z">>

\* str.upper() / tolower() on one ASCII character
UpperChar(c) ==
    IF \E i \in 1..26 : LowerCase[i] = c
    THEN UpperCase[CHOOSE i \in 1..26 : LowerCase[i] = c] ELSE c
LowerChar(c) ==
    IF \E i \in 1..26 : UpperCase[i] = c
    THEN LowerCase[CHOOSE i \in 1..26 : UpperCase[i] = c] ELSE c
Upper(s) == [i \in 1..Len(s) |-> UpperChar(s[i])]
Lower(s) == [i \in 1..Len(s) |-> LowerChar(s[i])]

IsPrefix(p, s) == Len(p) <= Len(s) /\ SubSeq(s, 1, Len(p)) = p
\* Python's `p in s`
Contains(s, p) == \E i \in 0..(Len(s) - Len(p)) : SubSeq(s, i + 1, i + Len(p)) = p

RECURSIVE Replace(_, _, _)
\* str.replace(old, new) for a non-empty old: every occurrence, left to right,
\* without rescanning what was inserted
Replace(s, old, new) ==
    IF Len(s) < Len(old) THEN s
    ELSE IF IsPrefix(old, s)
         THEN new \o Replace(SubSeq(s, Len(old) + 1, Len(s)), old, new)
         ELSE <<Head(s)>> \o Replace(Tail(s), old, new)


T_comma == <<",">>
T_percent == <<"%">>
T_sqkm == <<" ", "s", "q", " ", "k", "m">>
T_km == <<" ", "k", "m">>
T_m == <<" ", "m">>
T_bblday == <<" ", "b", "b", "l", "/", "d", "a", "y">>
T_kW == <<" ", "k", "W">>
T_Mt == <<" ", "M", "t">>
T_dollar == <<"$">>
T_billion == <<"b", "i", "l", "l", "i", "o", "n">>
T_million == <<"m", "i", "l", "l", "i", "o", "n">>
T_e9 == <<"e", "9">>
T_e6 == <<"e", "6">>
T_nan == <<"n", "a", "n">>
T_inf == <<"i", "n", "f">>
T_infinity == <<"i", "n", "f", "i", "n", "i", "t", "y">>

-----------------------------------------------------------------------------
(* pd.to_numeric(series, errors='coerce') on one text cell: the grammar of   *)
(* the pandas float parser (leading blanks, sign, digits, '.', digits,       *)
(* exponent, trailing blanks), then the infinity words, else null.           *)

RECURSIVE SkipSpaces(_, _)
SkipSpaces(s, p) ==
    IF p <= Len(s) /\ IsSpace(s[p]) THEN SkipSpaces(s, p + 1) ELSE p

RECURSIVE ScanDigits(_, _)
ScanDigits(s, p) ==
    IF p <= Len(s) /\ IsDigit(s[p]) THEN ScanDigits(s, p + 1) ELSE p

RECURSIVE DigitsValue(_, _, _, _)
\* number = number * 10 + digit over s[p .. q-1], from acc
DigitsValue(s, p, q, acc) ==
    IF p >= q THEN acc ELSE DigitsValue(s, p + 1, q, acc * 10 + DigitVal(s[p]))

At(s, p) == IF p >= 1 /\ p <= Len(s) THEN s[p] ELSE ""

\* the end of the parse: trailing blanks are skipped, and the text is a number
\* when nothing is left; [ok, m, e] is the verdict and the number m * 10^e
ParseEnd(s, p, number, exponent) ==
    [ok |-> SkipSpaces(s, p) > Len(s), m |-> number, e |-> exponent]

\* the digits of the exponent, s[q1 .. q2-1]; when there is none the
\* character before q1 is un-consumed
ParseExponentDigits(s, number, exponent, eneg, q1, q2) ==
    IF q2 = q1 THEN ParseEnd(s, q1 - 1, number, exponent)
    ELSE ParseEnd(s, q2, number,
                  IF eneg THEN exponent - DigitsValue(s, q1, q2, 0)
                          ELSE exponent + DigitsValue(s, q1, q2, 0))

\* the sign of the exponent, at q0
ParseExponentSign(s, number, exponent, q0) ==
    IF At(s, q0) \in {"-", "+"}
    THEN ParseExponentDigits(s, number, exponent, At(s, q0) = "-",
                             q0 + 1, ScanDigits(s, q0 + 1))
    ELSE ParseExponentDigits(s, number, exponent, FALSE, q0, ScanDigits(s, q0))

\* after the digits: ndigits of them were seen, p is the next character
ParseExponent(s, p, ndigits, number, exponent) ==
    IF ndigits = 0 THEN [ok |-> FALSE, m |-> 0, e |-> 0]
    ELSE IF UpperChar(At(s, p)) = "E"
         THEN ParseExponentSign(s, number, exponent, p + 1)
         ELSE ParseEnd(s, p, number, exponent)

\* the fraction s[p2+1 .. p3-1] after the '.' at p2
ParseFraction(s, neg, p1, p2, p3, int) ==
    ParseExponent(s, p3, (p2 - p1) + (p3 - (p2 + 1)),
                  IF neg THEN 0 - DigitsValue(s, p2 + 1, p3, int)
                         ELSE DigitsValue(s, p2 + 1, p3, int),
                  0 - (p3 - (p2 + 1)))

\* the integer digits s[p1 .. p2-1]
ParseDigits(s, neg, p1, p2) ==
    IF At(s, p2) = "."
    THEN ParseFraction(s, neg, p1, p2, ScanDigits(s, p2 + 1),
                       DigitsValue(s, p1, p2, 0))
    ELSE ParseExponent(s, p2, p2 - p1,
                       IF neg THEN 0 - DigitsValue(s, p1, p2, 0)
                              ELSE DigitsValue(s, p1, p2, 0),
                       0)

\* the sign, at p0
ParseSign(s, p0) ==
    IF At(s, p0) \in {"-", "+"}
    THEN ParseDigits(s, At(s, p0) = "-", p0 + 1, ScanDigits(s, p0 + 1))
    ELSE ParseDigits(s, FALSE, p0, ScanDigits(s, p0))

\* [ok, m, e]: whether the whole text is one number, and the number m * 10^e
ParseFloat(s) == ParseSign(s, SkipSpaces(s, 1))

\* a text that is no number: an infinity when it spells one, else null
InfinityOrNull(l) ==
    IF l \in {T_inf, <<"+">> \o T_inf, T_infinity, <<"+">> \o T_infinity}
    THEN Inf(1)
    ELSE IF l \in {<<"-">> \o T_inf, <<"-">> \o T_infinity} THEN Inf(-1)
    ELSE NaN

ParsedCell(s, r) ==
    IF Len(s) = 0 THEN NaN
    ELSE IF r.ok THEN Num(r.m, r.e)
    ELSE InfinityOrNull(Lower(s))

\* one text cell under errors='coerce': a number, an infinity or null
ParseCell(s) == ParsedCell(s, ParseFloat(s))

KeepIfNull(c, parsed) == IF IsNull(parsed) /\ Len(c.s) > 0 THEN c ELSE parsed

\* errors='ignore' instead of 'coerce': a text that does not parse stays text
ToNumericIgnore(c) == IF c.t = "str" THEN KeepIfNull(c, ParseCell(c.s)) ELSE c

\* pd.to_numeric(..., errors='coerce') on one cell; a cell that is already
\* numeric or null is returned as it is
ToNumeric(c) == IF c.t = "str" THEN ParseCell(c.s) ELSE c

-----------------------------------------------------------------------------
(* clean_numeric_column *)

\* all eleven replacements but in an order that strips ' km' before ' sq km'
ReplacementsKmFirst ==
    << <<T_comma, <<>>>>, <<T_percent, <<>>>>, <<T_km, <<>>>>, <<T_sqkm, <<>>>>,
       <<T_m, <<>>>>, <<T_bblday, <<>>>>, <<T_kW, <<>>>>, <<T_Mt, <<>>>>,
       <<T_dollar, <<>>>>, <<T_billion, T_e9>>, <<T_million, T_e6>> >>

\* the replacements without the one for the thousands separator
ReplacementsNoComma ==
    << <<T_percent, <<>>>>, <<T_sqkm, <<>>>>, <<T_km, <<>>>>,
       <<T_m, <<>>>>, <<T_bblday, <<>>>>, <<T_kW, <<>>>>, <<T_Mt, <<>>>>,
       <<T_dollar, <<>>>>, <<T_billion, T_e9>>, <<T_million, T_e6>> >>

\* the str.replace calls, in the order the code makes them
Replacements ==
    << <<T_comma, <<>>>>, <<T_percent, <<>>>>, <<T_sqkm, <<>>>>, <<T_km, <<>>>>,
       <<T_m, <<>>>>, <<T_bblday, <<>>>>, <<T_kW, <<>>>>, <<T_Mt, <<>>>>,
       <<T_dollar, <<>>>>, <<T_billion, T_e9>>, <<T_million, T_e6>> >>

RECURSIVE ApplyReplacements(_, _, _)
ApplyReplacements(s, reps, k) ==
    IF k > Len(reps) THEN s
    ELSE ApplyReplacements(Replace(s, reps[k][1], reps[k][2]), reps, k + 1)

\* series.astype(str) on one cell of an object series: a null cell becomes the
\* text 'nan'
AsTypeStr(c) == IF c.t = "str" THEN c.s ELSE T_nan

\* the text of a cell after lines 30-41
CleanText(c) == ApplyReplacements(AsTypeStr(c), Replacements, 1)

\* series.dtype == 'object': the series holds text
IsObjectDtype(ser) == \E i \in 1..Len(ser) : ser[i].t = "str"

clean_numeric_column(ser) ==
    [i \in 1..Len(ser) |->
        ToNumeric(IF IsObjectDtype(ser) THEN Str(CleanText(ser[i])) ELSE ser[i])]

-----------------------------------------------------------------------------
(* _classify_continent: the six lists, and the first list with an entry     *)
(* that is a substring of the upper-cased name decides.                     *)

asia ==
    << <<"C", "H", "I", "N", "A">>,
       <<"I", "N", "D", "I", "A">>,
       <<"J", "A", "P", "A", "N">>,
       <<"S", "O", "U", "T", "H", " ", "K", "O", "R", "E", "A">>,
       <<"I", "N", "D", "O", "N", "E", "S", "I", "A">>,
       <<"T", "H", "A", "I", "L", "A", "N", "D">>,
       <<"V", "I", "E", "T", "N", "A", "M">>,
       <<"M", "A", "L", "A", "Y", "S", "I", "A">>,
       <<"P", "H", "I", "L", "I", "P", "P", "I", "N", "E", "S">>,
       <<"S", "I", "N", "G", "A", "P", "O", "R", "E">>,
       <<"B", "A", "N", "G", "L", "A", "D", "E", "S", "H">>,
       <<"P", "A", "K", "I", "S", "T", "A", "N">>,
       <<"A", "F", "G", "H", "A", "N", "I", "S", "T", "A", "N">>,
       <<"I", "R", "A", "N">>,
       <<"I", "R", "A", "Q">>,
       <<"S", "A", "U", "D", "I", " ", "A", "R", "A", "B", "I", "A">>,
       <<"Y", "E", "M", "E", "N">>,
       <<"S", "Y", "R", "I", "A">>,
       <<"T", "U", "R", "K", "E", "Y">>,
       <<"I", "S", "R", "A", "E", "L">>,
       <<"J", "O", "R", "D", "A", "N">>,
       <<"L", "E", "B", "A", "N", "O", "N">>,
       <<"U", "A", "E">>,
       <<"K", "U", "W", "A", "I", "T">>,
       <<"Q", "A", "T", "A", "R">>,
       <<"B", "A", "H", "R", "A", "I", "N">>,
       <<"O", "M", "A", "N">>,
       <<"A", "Z", "E", "R", "B", "A", "I", "J", "A", "N">>,
       <<"A", "R", "M", "E", "N", "I", "A">>,
       <<"G", "E", "O", "R", "G", "I", "A">>,
       <<"K", "A", "Z", "A", "K", "H", "S", "T", "A", "N">>,
       <<"U", "Z", "B", "E", "K", "I", "S", "T", "A", "N">>,
       <<"T", "U", "R", "K", "M", "E", "N", "I", "S", "T", "A", "N">>,
       <<"K", "Y", "R", "G", "Y", "Z", "S", "T", "A", "N">>,
       <<"T", "A", "J", "I", "K", "I", "S", "T", "A", "N">>,
       <<"M", "O", "N", "G", "O", "L", "I", "A">>,
       <<"M", "Y", "A", "N", "M", "A", "R">>,
       <<"B", "U", "R", "M", "A">>,
       <<"C", "A", "M", "B", "O", "D", "I", "A">>,
       <<"L", "A", "O", "S">>,
       <<"B", "R", "U", "N", "E", "I">>,
       <<"T", "I", "M", "O", "R", "-", "L", "E", "S", "T", "E">>,
       <<"B", "H", "U", "T", "A", "N">>,
       <<"N", "E", "P", "A", "L">>,
       <<"S", "R", "I", " ", "L", "A", "N", "K", "A">>,
       <<"M", "A", "L", "D", "I", "V", "E", "S">> >>

europe ==
    << <<"U", "N", "I", "T", "E", "D", " ", "K", "I", "N", "G", "D", "O", "M">>,
       <<"G", "E", "R", "M", "A", "N", "Y">>,
       <<"F", "R", "A", "N", "C", "E">>,
       <<"I", "T", "A", "L", "Y">>,
       <<"S", "P", "A", "I", "N">>,
       <<"P", "O", "L", "A", "N", "D">>,
       <<"R", "O", "M", "A", "N", "I", "A">>,
       <<"N", "E", "T", "H", "E", "R", "L", "A", "N", "D", "S">>,
       <<"B", "E", "L", "G", "I", "U", "M">>,
       <<"C", "Z", "E", "C", "H", " ", "R", "E", "P", "U", "B", "L", "I", "C">>,
       <<"G", "R", "E", "E", "C", "E">>,
       <<"P", "O", "R", "T", "U", "G", "A", "L">>,
       <<"S", "W", "E", "D", "E", "N">>,
       <<"H", "U", "N", "G", "A", "R", "Y">>,
       <<"A", "U", "S", "T", "R", "I", "A">>,
       <<"B", "U", "L", "G", "A", "R", "I", "A">>,
       <<"D", "E", "N", "M", "A", "R", "K">>,
       <<"F", "I", "N", "L", "A", "N", "D">>,
       <<"S", "L", "O", "V", "A", "K", "I", "A">>,
       <<"N", "O", "R", "W", "A", "Y">>,
       <<"I", "R", "E", "L", "A", "N", "D">>,
       <<"C", "R", "O", "A", "T", "I", "A">>,
       <<"B", "O", "S", "N", "I", "A">>,
       <<"S", "E", "R", "B", "I", "A">>,
       <<"S", "W", "I", "T", "Z", "E", "R", "L", "A", "N", "D">>,
       <<"A", "L", "B", "A", "N", "I", "A">>,
       <<"L", "I", "T", "H", "U", "A", "N", "I", "A">>,
       <<"S", "L", "O", "V", "E", "N", "I", "A">>,
       <<"L", "A", "T", "V", "I", "A">>,
       <<"N", "O", "R", "T", "H", " ", "M", "A", "C", "E", "D", "O", "N", "I", "A">>,
       <<"E", "S", "T", "O", "N", "I", "A">>,
       <<"L", "U", "X", "E", "M", "B", "O", "U", "R", "G">>,
       <<"M", "A", "L", "T", "A">>,
       <<"I", "C", "E", "L", "A", "N", "D">>,
       <<"M", "O", "N", "T", "E", "N", "E", "G", "R", "O">>,
       <<"B", "E", "L", "A", "R", "U", "S">>,
       <<"U", "K", "R", "A", "I", "N", "E">>,
       <<"R", "U", "S", "S", "I", "A">>,
       <<"M", "O", "L", "D", "O", "V", "A">> >>

africa ==
    << <<"N", "I", "G", "E", "R", "I", "A">>,
       <<"E", "T", "H", "I", "O", "P", "I", "A">>,
       <<"E", "G", "Y", "P", "T">>,
       <<"C", "O", "N", "G", "O">>,
       <<"S", "O", "U", "T", "H", " ", "A", "F", "R", "I", "C", "A">>,
       <<"T", "A", "N", "Z", "A", "N", "I", "A">>,
       <<"K", "E", "N", "Y", "A">>,
       <<"U", "G", "A", "N", "D", "A">>,
       <<"A", "L", "G", "E", "R", "I", "A">>,
       <<"S", "U", "D", "A", "N">>,
       <<"M", "O", "R", "O", "C", "C", "O">>,
       <<"A", "N", "G", "O", "L", "A">>,
       <<"G", "H", "A", "N", "A">>,
       <<"M", "O", "Z", "A", "M", "B", "I", "Q", "U", "E">>,
       <<"M", "A", "D", "A", "G", "A", "S", "C", "A", "R">>,
       <<"C", "A", "M", "E", "R", "O", "O", "N">>,
       <<"I", "V", "O", "R", "Y", " ", "C", "O", "A", "S", "T">>,
       <<"N", "I", "G", "E", "R">>,
       <<"B", "U", "R", "K", "I", "N", "A", " ", "F", "A", "S", "O">>,
       <<"M", "A", "L", "I">>,
       <<"M", "A", "L", "A", "W", "I">>,
       <<"Z", "A", "M", "B", "I", "A">>,
       <<"S", "E", "N", "E", "G", "A", "L">>,
       <<"S", "O", "M", "A", "L", "I", "A">>,
       <<"C", "H", "A", "D">>,
       <<"Z", "I", "M", "B", "A", "B", "W", "E">>,
       <<"G", "U", "I", "N", "E", "A">>,
       <<"R", "W", "A", "N", "D", "A">>,
       <<"B", "E", "N", "I", "N">>,
       <<"B", "U", "R", "U", "N", "D", "I">>,
       <<"T", "U", "N", "I", "S", "I", "A">>,
       <<"T", "O", "G", "O">>,
       <<"S", "I", "E", "R", "R", "A", " ", "L", "E", "O", "N", "E">>,
       <<"L", "I", "B", "Y", "A">>,
       <<"L", "I", "B", "E", "R", "I", "A">>,
       <<"M", "A", "U", "R", "I", "T", "A", "N", "I", "A">>,
       <<"E", "R", "I", "T", "R", "E", "A">>,
       <<"G", "A", "M", "B", "I", "A">>,
       <<"B", "O", "T", "S", "W", "A", "N", "A">>,
       <<"N", "A", "M", "I", "B", "I", "A">>,
       <<"G", "A", "B", "O", "N">>,
       <<"L", "E", "S", "O", "T", "H", "O">>,
       <<"G", "U", "I", "N", "E", "A", "-", "B", "I", "S", "S", "A", "U">>,
       <<"E", "Q", "U", "A", "T", "O", "R", "I", "A", "L", " ", "G", "U", "I", "N", "E", "A">>,
       <<"M", "A", "U", "R", "I", "T", "I", "U", "S">>,
       <<"E", "S", "W", "A", "T", "I", "N", "I">>,
       <<"D", "J", "I", "B", "O", "U", "T", "I">>,
       <<"C", "O", "M", "O", "R", "O", "S">>,
       <<"C", "A", "B", "O", " ", "V", "E", "R", "D", "E">>,
       <<"S", "A", "O", " ", "T", "O", "M", "E">>,
       <<"S", "E", "Y", "C", "H", "E", "L", "L", "E", "S">>,
       <<"C", "E", "N", "T", "R", "A", "L", " ", "A", "F", "R", "I", "C", "A", "N", " ", "R", "E", "P", "U", "B", "L", "I", "C">> >>

north_america ==
    << <<"U", "N", "I", "T", "E", "D", " ", "S", "T", "A", "T", "E", "S">>,
       <<"C", "A", "N", "A", "D", "A">>,
       <<"M", "E", "X", "I", "C", "O">>,
       <<"G", "U", "A", "T", "E", "M", "A", "L", "A">>,
       <<"C", "U", "B", "A">>,
       <<"H", "A", "I", "T", "I">>,
       <<"D", "O", "M", "I", "N", "I", "C", "A", "N", " ", "R", "E", "P", "U", "B", "L", "I", "C">>,
       <<"H", "O", "N", "D", "U", "R", "A", "S">>,
       <<"N", "I", "C", "A", "R", "A", "G", "U", "A">>,
       <<"E", "L", " ", "S", "A", "L", "V", "A", "D", "O", "R">>,
       <<"C", "O", "S", "T", "A", " ", "R", "I", "C", "A">>,
       <<"P", "A", "N", "A", "M", "A">>,
       <<"J", "A", "M", "A", "I", "C", "A">>,
       <<"T", "R", "I", "N", "I", "D", "A", "D">>,
       <<"B", "E", "L", "I", "Z", "E">>,
       <<"B", "A", "H", "A", "M", "A", "S">>,
       <<"B", "A", "R", "B", "A", "D", "O", "S">>,
       <<"S", "A", "I", "N", "T", " ", "L", "U", "C", "I", "A">>,
       <<"G", "R", "E", "N", "A", "D", "A">>,
       <<"A", "N", "T", "I", "G", "U", "A">>,
       <<"D", "O", "M", "I", "N", "I", "C", "A">>,
       <<"S", "A", "I", "N", "T", " ", "K", "I", "T", "T", "S">> >>

south_america ==
    << <<"B", "R", "A", "Z", "I", "L">>,
       <<"C", "O", "L", "O", "M", "B", "I", "A">>,
       <<"A", "R", "G", "E", "N", "T", "I", "N", "A">>,
       <<"P", "E", "R", "U">>,
       <<"V", "E", "N", "E", "Z", "U", "E", "L", "A">>,
       <<"C", "H", "I", "L", "E">>,
       <<"E", "C", "U", "A", "D", "O", "R">>,
       <<"B", "O", "L", "I", "V", "I", "A">>,
       <<"P", "A", "R", "A", "G", "U", "A", "Y">>,
       <<"U", "R", "U", "G", "U", "A", "Y">>,
       <<"G", "U", "Y", "A", "N", "A">>,
       <<"S", "U", "R", "I", "N", "A", "M", "E">>,
       <<"F", "R", "E", "N", "C", "H", " ", "G", "U", "I", "A", "N", "A">> >>

oceania ==
    << <<"A", "U", "S", "T", "R", "A", "L", "I", "A">>,
       <<"P", "A", "P", "U", "A", " ", "N", "E", "W", " ", "G", "U", "I", "N", "E", "A">>,
       <<"N", "E", "W", " ", "Z", "E", "A", "L", "A", "N", "D">>,
       <<"F", "I", "J", "I">>,
       <<"S", "O", "L", "O", "M", "O", "N">>,
       <<"M", "I", "C", "R", "O", "N", "E", "S", "I", "A">>,
       <<"V", "A", "N", "U", "A", "T", "U">>,
       <<"S", "A", "M", "O", "A">>,
       <<"K", "I", "R", "I", "B", "A", "T", "I">>,
       <<"T", "O", "N", "G", "A">>,
       <<"P", "A", "L", "A", "U">>,
       <<"T", "U", "V", "A", "L", "U">>,
       <<"N", "A", "U", "R", "U">>,
       <<"M", "A", "R", "S", "H", "A", "L", "L", " ", "I", "S", "L", "A", "N", "D", "S">> >>

OtherNames ==
    << <<>>,
       <<"A", "t", "l", "a", "n", "t", "i", "s">>,
       <<"K", "o", "r", "e", "a", ",", " ", "S", "o", "u", "t", "h">>,
       <<"K", "o", "r", "e", "a", ",", " ", "N", "o", "r", "t", "h">>,
       <<"B", "r", "i", "t", "i", "s", "h", " ", "I", "n", "d", "i", "a", "n", " ", "O", "c", "e", "a", "n", " ", "T", "e", "r", "r", "i", "t", "o", "r", "y">>,
       <<"A", "m", "e", "r", "i", "c", "a", "n", " ", "S", "a", "m", "o", "a">>,
       <<"S", "o", "u", "t", "h", " ", "G", "e", "o", "r", "g", "i", "a", " ", "a", "n", "d", " ", "S", "o", "u", "t", "h", " ", "S", "a", "n", "d", "w", "i", "c", "h", " ", "I", "s", "l", "a", "n", "d", "s">>,
       <<"M", "i", "c", "r", "o", "n", "e", "s", "i", "a", ",", " ", "F", "e", "d", "e", "r", "a", "t", "e", "d", " ", "S", "t", "a", "t", "e", "s", " ", "o", "f">>,
       <<"C", "o", "n", "g", "o", ",", " ", "R", "e", "p", "u", "b", "l", "i", "c", " ", "o", "f", " ", "t", "h", "e">>,
       <<"H", "o", "n", "g", " ", "K", "o", "n", "g">>,
       <<"T", "a", "i", "w", "a", "n">>,
       <<"K", "o", "s", "o", "v", "o">>,
       <<"C", "y", "p", "r", "u", "s">>,
       <<"G", "r", "e", "e", "n", "l", "a", "n", "d">>,
       <<"W", "o", "r", "l", "d">>,
       <<"C", "o", "t", "e", " ", "d", "'", "I", "v", "o", "i", "r", "e">>,
       <<"C", "z", "e", "c", "h", "i", "a">>,
       <<"G", "u", "a", "m">>,
       <<"P", "a", "p", "u", "a", " ", "N", "e", "w", " ", "G", "u", "i", "n", "e", "a">>,
       <<"G", "u", "i", "n", "e", "a", "-", "B", "i", "s", "s", "a", "u">>,
       <<"D", "o", "m", "i", "n", "i", "c", "a", "n", " ", "R", "e", "p", "u", "b", "l", "i", "c">>,
       <<"U", "n", "i", "t", "e", "d", " ", "S", "t", "a", "t", "e", "s">>,
       <<"V", "i", "r", "g", "i", "n", " ", "I", "s", "l", "a", "n", "d", "s">>,
       <<"N", "i", "g", "e", "r">>,
       <<"O", "m", "a", "n">> >>

\* the lists in the order the loop visits them
ContinentLists ==
    << <<"Asia", asia>>, <<"Europe", europe>>, <<"Africa", africa>>,
       <<"North America", north_america>>, <<"South America", south_america>>,
       <<"Oceania", oceania>> >>

\* `country_upper in countries`: the name has to be an entry
AnyEntryEquals(country_upper, countries) ==
    \E j \in 1..Len(countries) : countries[j] = country_upper

\* any(c in country_upper for c in countries)
AnyEntryIn(country_upper, countries) ==
    \E j \in 1..Len(countries) : Contains(country_upper, countries[j])

RECURSIVE ClassifyFrom(_, _)
\* the for loop from list k on, and the final return 'Other'
ClassifyFrom(country_upper, k) ==
    IF k > Len(ContinentLists) THEN "Other"
    ELSE IF AnyEntryIn(country_upper, ContinentLists[k][2])
         THEN ContinentLists[k][1]
         ELSE ClassifyFrom(country_upper, k + 1)

classify_continent(name) == ClassifyFrom(Upper(name), 1)

-----------------------------------------------------------------------------
(* Tables.  A table (a DataFrame, or a CSV file as read) is a record        *)
(* [cols, rows]: the column names in order, and the rows in order, each row *)
(* a function from the column names to cells.                               *)

Range(f) == {f[i] : i \in DOMAIN f}
Column(tbl, col) == [i \in 1..Len(tbl.rows) |-> tbl.rows[i][col]]
HasColumn(tbl, col) == col \in Range(tbl.cols)

\* df[col] = values
SetColumn(tbl, col, values) ==
    [cols |-> IF HasColumn(tbl, col) THEN tbl.cols ELSE Append(tbl.cols, col),
     rows |-> [i \in 1..Len(tbl.rows) |->
                 [c \in Range(tbl.cols) \cup {col} |->
                     IF c = col THEN values[i] ELSE tbl.rows[i][c]]]]

\* the texts pd.read_csv reads as a missing value (the ones that occur here)
NaTexts == {<<>>, T_nan, <<"N", "a", "N">>, <<"N", "A">>, <<"N", "/", "A">>,
            <<"n", "/", "a">>}

\* the cells of a column whose texts are `texts`, numeric or not
TypedColumn(texts, numeric) ==
    [i \in 1..Len(texts) |->
        IF texts[i] \in NaTexts THEN NaN
        ELSE IF numeric THEN ParseCell(texts[i])
        ELSE Str(texts[i])]

\* pd.read_csv on one column of a file: a missing value is null; the column
\* is numeric when every other text is a number, and text otherwise
ReadCsvColumn(texts) ==
    TypedColumn(texts, \A i \in 1..Len(texts) :
                          texts[i] \in NaTexts \/ ParseFloat(texts[i]).ok)

\* pd.read_csv: the Country column is kept as text (no name here is a
\* number), every other column is typed by its content
read_csv(file) ==
    [cols |-> file.cols,
     rows |-> [i \in 1..Len(file.rows) |->
                 [c \in Range(file.cols) |->
                     IF c = "Country" THEN Str(file.rows[i][c])
                     ELSE ReadCsvColumn([j \in 1..Len(file.rows) |->
                                            file.rows[j][c]])[i]]]]

RECURSIVE CleanColumns(_, _, _)
\* for col in cols: if col in df.columns: df[col] = clean_numeric_column(df[col])
CleanColumns(df, cols, k) ==
    IF k > Len(cols) THEN df
    ELSE IF HasColumn(df, cols[k])
         THEN CleanColumns(SetColumn(df, cols[k],
                               clean_numeric_column(Column(df, cols[k]))),
                           cols, k + 1)
         ELSE CleanColumns(df, cols, k + 1)

\* [col for col in df.columns if col not in excluded]
ColumnsExcept(df, excluded) == SelectSeq(df.cols, LAMBDA c : c \notin excluded)

\* the dict load_all_datasets builds, as its keys in insertion order
DatasetNames == <<"geography", "demographics", "economy", "energy",
                  "transportation", "communications", "government">>

\* the columns each load_*_data function cleans, in its order: numeric_cols,
\* then pct_cols where the function has them
ColumnsToClean(name, df) ==
    CASE name = "geography" ->
            <<"Area_Total", "Land_Area", "Water_Area", "Land_Boundaries",
              "Coastline", "Highest_Elevation", "Lowest_Elevation",
              "Irrigated_Land">>
            \o <<"Forest_Land", "Other_Land", "Agricultural_Land">>
      [] name = "demographics" ->
            <<"Total_Population", "Birth_Rate", "Death_Rate",
              "Net_Migration_Rate", "Median_Age", "Sex_Ratio",
              "Infant_Mortality_Rate", "Total_Fertility_Rate">>
            \o <<"Population_Growth_Rate", "Total_Literacy_Rate",
                 "Male_Literacy_Rate", "Female_Literacy_Rate",
                 "Youth_Unemployment_Rate">>
      [] name = "economy" -> ColumnsExcept(df, {"Country", "Fiscal_Year"})
      [] name = "energy" -> ColumnsExcept(df, {"Country"})
      [] name = "transportation" -> ColumnsExcept(df, {"Country"})
      [] name = "communications" ->
            ColumnsExcept(df, {"Country", "internet_country_code"})
      [] name = "government" -> <<"Suffrage_Age">>

\* the body the seven load_*_data functions share, on the table read
CleanLoaded(name, df) == CleanColumns(df, ColumnsToClean(name, df), 1)

\* load_geography_data ... load_government_data: read the file, clean the
\* columns (the coordinates column of the geography file is not modelled)
load_data(name, dir) == CleanLoaded(name, read_csv(dir[name]))

load_all_datasets(dir) ==
    [k \in 1..Len(DatasetNames) |->
        <<DatasetNames[k], load_data(DatasetNames[k], dir)>>]

\* the name a column of the right table gets under suffixes=('', '_' + name)
RightColumnName(c, left, name) ==
    IF HasColumn(left, c) THEN c \o "_" \o name ELSE c

RECURSIVE Flatten(_)
Flatten(ss) == IF Len(ss) = 0 THEN <<>> ELSE Head(ss) \o Flatten(Tail(ss))

\* the rows of right with the key, in right's order
Matches(right, key) == SelectSeq(right.rows, LAMBDA r : r["Country"] = key)

\* how='inner': a left row without a row of right is dropped
MatchesInner(right, key) == Matches(right, key)

\* a join that pairs a left row with every row of right, whatever its key
MatchesCross(right, key) ==
    IF Len(right.rows) = 0 THEN <<[c \in Range(right.cols) |-> NaN]>>
    ELSE right.rows

\* how='left': the rows of right with the key; a left row without one is
\* kept once, with null in the columns of right
MatchesLeft(right, key) ==
    LET found == Matches(right, key)
    IN  IF Len(found) = 0
        THEN <<[c \in Range(right.cols) |-> NaN]>>
        ELSE found

\* merged.merge(df, on='Country', how='left', suffixes=('', '_' + name))
merge_left(left, right, name) ==
    LET rcols == ColumnsExcept(right, {"Country"})
        newName(c) == RightColumnName(c, left, name)
        joined(lrow, rrow) ==
            [c \in Range(left.cols) \cup {newName(rc) : rc \in Range(rcols)} |->
                IF HasColumn(left, c) THEN lrow[c]
                ELSE rrow[CHOOSE rc \in Range(rcols) : newName(rc) = c]]
    IN  [cols |-> left.cols \o [k \in 1..Len(rcols) |-> newName(rcols[k])],
         rows |-> Flatten([i \in 1..Len(left.rows) |->
                     LET found == MatchesLeft(right, left.rows[i]["Country"])
                     IN  [j \in 1..Len(found) |->
                             joined(left.rows[i], found[j])]])]

RECURSIVE MergeFrom(_, _, _)
\* for name, df in self.datasets.items(): if name != 'geography': merge
MergeFrom(merged, items, k) ==
    IF k > Len(items) THEN merged
    ELSE IF items[k][1] # "geography"
         THEN MergeFrom(merge_left(merged, items[k][2], items[k][1]), items, k + 1)
         ELSE MergeFrom(merged, items, k + 1)

\* self.datasets['geography']
DatasetNamed(items, name) ==
    items[CHOOSE k \in 1..Len(items) : items[k][1] = name][2]

\* a <= b for two numbers or infinities
LessEq(a, b) ==
    IF a.t = "inf" THEN a.m = -1 \/ (b.t = "inf" /\ b.m = 1)
    ELSE IF b.t = "inf" THEN b.m = 1
    ELSE LET e0 == IF a.e < b.e THEN a.e ELSE b.e
         IN  a.m * Pow10(a.e - e0) <= b.m * Pow10(b.e - e0)
Less(a, b) == LessEq(a, b) /\ ~LessEq(b, a)

\* bins=[0, 5000, 15000, 30000, float('inf')] and the labels of the bins
CutBins == <<Num(0, 0), Num(5000, 0), Num(15000, 0), Num(30000, 0), Inf(1)>>
CutLabels == <<"Low Income", "Lower Middle", "Upper Middle", "High Income">>

\* a bin closed on the left and open on the right
InBinLeftClosed(g, k) == LessEq(CutBins[k], g) /\ Less(g, CutBins[k + 1])

\* pd.cut's default right=True: bin k is (bins[k], bins[k+1]]
InBin(g, k) == Less(CutBins[k], g) /\ LessEq(g, CutBins[k + 1])

\* pd.cut on one cell: the label of the bin that holds it, else null
cut(g) ==
    IF ~IsNumber(g) THEN NaN
    ELSE IF \E k \in 1..Len(CutLabels) : InBin(g, k)
         THEN Str(CutLabels[CHOOSE k \in 1..Len(CutLabels) : InBin(g, k)])
         ELSE NaN

\* merged['Development_Level'] = pd.cut(...) when the GDP column is there
AddDevelopmentLevel(merged) ==
    IF HasColumn(merged, "Real_GDP_per_Capita_USD")
    THEN SetColumn(merged, "Development_Level",
                   [i \in 1..Len(merged.rows) |->
                       cut(merged.rows[i]["Real_GDP_per_Capita_USD"])])
    ELSE merged

\* merged['Continent'] = merged['Country'].apply(self._classify_continent)
AddContinent(merged) ==
    SetColumn(merged, "Continent",
              [i \in 1..Len(merged.rows) |->
                  Str(classify_continent(merged.rows[i]["Country"].s))])

\* the table merge_datasets builds from the loaded datasets
merge_datasets(items) ==
    AddDevelopmentLevel(
        AddContinent(MergeFrom(DatasetNamed(items, "geography"), items, 1)))

-----------------------------------------------------------------------------
(* get_metric_info and get_country_list *)

\* the characters of the names used here, in code point order
CodePoints == <<" ", "'", ",", "-">> \o Digits \o UpperCase \o LowerCase
Ord(c) == CHOOSE i \in 1..Len(CodePoints) : CodePoints[i] = c

RECURSIVE TextLess(_, _)
\* a < b for two Python strings
TextLess(a, b) ==
    IF Len(b) = 0 THEN FALSE
    ELSE IF Len(a) = 0 THEN TRUE
    ELSE IF Head(a) # Head(b) THEN Ord(Head(a)) < Ord(Head(b))
    ELSE TextLess(Tail(a), Tail(b))

RECURSIVE DescendingTexts(_)
\* sorted(list of distinct strings, reverse=True)
DescendingTexts(S) ==
    IF S = {} THEN <<>>
    ELSE LET most == CHOOSE x \in S : \A y \in S \ {x} : TextLess(y, x)
         IN  <<most>> \o DescendingTexts(S \ {most})

RECURSIVE SortedTexts(_)
\* sorted(list of distinct strings)
SortedTexts(S) ==
    IF S = {} THEN <<>>
    ELSE LET least == CHOOSE x \in S : \A y \in S \ {x} : TextLess(x, y)
         IN  <<least>> \o SortedTexts(S \ {least})

\* sorted(self.merged_data['Country'].dropna().unique().tolist())
get_country_list(merged) ==
    SortedTexts({merged.rows[i]["Country"].s :
                    i \in {j \in 1..Len(merged.rows) :
                              ~IsNull(merged.rows[j]["Country"])}})

\* the categories dict, as its items in insertion order
Categories ==
    << <<"Geography", <<"Area_Total", "Land_Area", "Water_Area", "Coastline",
                        "Forest_Land", "Agricultural_Land", "Irrigated_Land">>>>,
       <<"Demographics", <<"Total_Population", "Population_Growth_Rate",
                           "Birth_Rate", "Death_Rate", "Median_Age",
                           "Infant_Mortality_Rate", "Total_Literacy_Rate">>>>,
       <<"Economy", <<"Real_GDP_PPP_billion_USD", "Real_GDP_per_Capita_USD",
                      "Real_GDP_Growth_Rate_percent", "Unemployment_Rate_percent",
                      "Exports_billion_USD", "Imports_billion_USD">>>>,
       <<"Energy", <<"electricity_access_percent", "carbon_dioxide_emissions_Mt",
                     "petroleum_bbl_per_day", "natural_gas_cubic_meters">>>>,
       <<"Infrastructure", <<"roadways_km", "railways_km",
                             "airports_paved_runways_count", "waterways_km">>>>,
       <<"Communications", <<"internet_users_total",
                             "mobile_cellular_subscriptions_total",
                             "broadband_fixed_subscriptions_total">>>> >>

\* the cells of a series that are not null
NonNull(ser) == SelectSeq(ser, LAMBDA c : ~IsNull(c))

\* Series.min() / Series.max(): over the cells that are not null; null when
\* there is none
SeriesMin(ser) ==
    LET v == NonNull(ser)
    IN  IF Len(v) = 0 THEN NaN
        ELSE v[CHOOSE i \in 1..Len(v) : \A j \in 1..Len(v) : LessEq(v[i], v[j])]
SeriesMax(ser) ==
    LET v == NonNull(ser)
    IN  IF Len(v) = 0 THEN NaN
        ELSE v[CHOOSE i \in 1..Len(v) : \A j \in 1..Len(v) : LessEq(v[j], v[i])]

RECURSIVE SumScaled(_, _)
\* the sum of the finite cells, in units of 10^e0
SumScaled(v, e0) ==
    IF Len(v) = 0 THEN 0
    ELSE Head(v).m * Pow10(Head(v).e - e0) + SumScaled(Tail(v), e0)

\* Series.mean() over the cells that are not null: the pair [sum, n] whose
\* quotient it is; an infinity when one occurs, null when both do or when
\* there is no cell
SeriesMean(ser) ==
    LET v == NonNull(ser)
        hasPos == \E i \in 1..Len(v) : v[i] = Inf(1)
        hasNeg == \E i \in 1..Len(v) : v[i] = Inf(-1)
        e0 == CHOOSE e \in {v[i].e : i \in 1..Len(v)} :
                  \A i \in 1..Len(v) : e <= v[i].e
    IN  IF Len(v) = 0 \/ (hasPos /\ hasNeg) THEN [sum |-> NaN, n |-> 1]
        ELSE IF hasPos THEN [sum |-> Inf(1), n |-> 1]
        ELSE IF hasNeg THEN [sum |-> Inf(-1), n |-> 1]
        ELSE [sum |-> Num(SumScaled(v, e0), e0), n |-> Len(v)]

Zero == Num(0, 0)

\* float(x), whether x is null or not
OrNull(x) == x

\* float(x) if pd.notna(x) else 0
OrZero(x) == IF ~IsNull(x) THEN x ELSE Zero
MeanOrZero(x) == IF ~IsNull(x.sum) THEN x ELSE [sum |-> Zero, n |-> 1]

\* one entry of a category's list (the display label is left out)
MetricEntry(merged, col) ==
    [name |-> col,
     min |-> OrZero(SeriesMin(Column(merged, col))),
     max |-> OrZero(SeriesMax(Column(merged, col))),
     mean |-> MeanOrZero(SeriesMean(Column(merged, col)))]

\* the metrics dict, as its items in insertion order
get_metric_info(merged) ==
    [k \in 1..Len(Categories) |->
        <<Categories[k][1],
          LET present == SelectSeq(Categories[k][2],
                                   LAMBDA col : HasColumn(merged, col))
          IN  [j \in 1..Len(present) |-> MetricEntry(merged, present[j])]>>]

-----------------------------------------------------------------------------
(* The DataProcessor object: self.datasets (the items of the dict, <<>> for  *)
(* the empty dict) and self.merged_data (<<>> for None, else <<table>>).     *)
(* st is the record of the fields and of the bookkeeping of a call.          *)

\* `if self.merged_data is None` that is always taken
IsNoneAlways(md) == TRUE

\* `if self.merged_data is None`
IsNone(md) == Len(md) = 0

\* `if not self.datasets`
NeedsLoad(ds) == Len(ds) = 0

\* the rest of merge_datasets(), once the datasets are loaded
MergeLoaded(st) ==
    [st EXCEPT !.merged_data = <<merge_datasets(st.datasets)>>,
               !.merges = @ + 1,
               !.log = Append(@, "merge")]

\* merge_datasets(): loads when nothing is loaded, then merges and stores
MergeDatasetsCall(st, dir) ==
    MergeLoaded(IF NeedsLoad(st.datasets)
                THEN [st EXCEPT !.datasets = load_all_datasets(dir),
                                !.loads = @ + 1,
                                !.log = Append(@, "load")]
                ELSE st)

\* the guard that opens get_metric_info, get_country_list and
\* save_processed_data
EnsureMerged(st, dir) ==
    IF IsNone(st.merged_data) THEN MergeDatasetsCall(st, dir) ELSE st

-----------------------------------------------------------------------------
(* The cells clean_numeric_column is run on: every decimal literal built     *)
(* from a sign, an integer part, a fraction, a digit grouping, a prefix and  *)
(* a suffix, followed by other texts, most of them no number.  A series is   *)
(* a run of consecutive cells of this catalogue, or a run of numeric cells.  *)

MaxSeriesLen == 3

T_spMillion == <<" ">> \o T_million
T_spBillion == <<" ">> \o T_billion

Signs == << <<>>, <<"-">> >>
IntParts == << <<"9">>, <<"0">>, <<"4", "2">>, <<"1", "2", "3", "4">>,
               <<"5", "6", "7", "8">>, <<"1", "0", "0", "0">>,
               <<"1", "2", "3", "4", "5", "6", "7">> >>
FracParts == << <<>>, <<"5">>, <<"9", "9">>, <<"0", "5">> >>
Groupings == <<"plain", "commas">>
Prefixes == << <<>>, T_dollar >>
Units == <<T_sqkm, T_km, T_m, T_bblday, T_kW, T_Mt>>
Suffixes == << <<>>, T_percent >> \o Units
              \o <<T_spMillion, T_million, T_spBillion, T_billion>>

OtherTexts == << <<>>, <<"a", "b", "c">>, T_nan, <<"N", "a", "N">>,
                 <<"N", "/", "A">>, <<"-">>, <<".">>, <<"1", ".", "2", ".", "3">>,
                 <<"1", "2", "a", "b", "c">>, T_e9, <<"5", "e">>, <<"5", "e", "+">>,
                 <<"1", " ", "2">>, T_km, T_million, <<"%">>,
                 <<"i", "n", "f">>, <<"-", "I", "n", "f", "i", "n", "i", "t", "y">>,
                 <<" ", "1", "2", " ">>, <<"1", "e", "3">>, <<"+", "7">>,
                 <<"2", ".", "5", "E", "-", "1">>, <<".", "5">>, <<"5", ".">> >>

NumLiterals == Len(Signs) * Len(IntParts) * Len(FracParts) * Len(Groupings)
               * Len(Prefixes) * Len(Suffixes)
NumCells == NumLiterals + Len(OtherTexts)

\* the parts of literal k (1..NumLiterals), read off k - 1 in mixed radix
LiteralParts(k) ==
    LET a == k - 1
        b == a \div Len(Suffixes)
        c == b \div Len(Prefixes)
        d == c \div Len(Groupings)
        f == d \div Len(FracParts)
        g == f \div Len(IntParts)
    IN  [suffix |-> Suffixes[(a % Len(Suffixes)) + 1],
         prefix |-> Prefixes[(b % Len(Prefixes)) + 1],
         grouping |-> Groupings[(c % Len(Groupings)) + 1],
         frac |-> FracParts[(d % Len(FracParts)) + 1],
         int |-> IntParts[(f % Len(IntParts)) + 1],
         sign |-> Signs[(g % Len(Signs)) + 1]]

RECURSIVE WithCommas(_)
\* the digits with a comma before every group of three, counted from the right
WithCommas(ds) ==
    IF Len(ds) <= 3 THEN ds
    ELSE WithCommas(SubSeq(ds, 1, Len(ds) - 3)) \o T_comma
         \o SubSeq(ds, Len(ds) - 2, Len(ds))

LiteralText(l) ==
    l.prefix \o l.sign
    \o (IF l.grouping = "commas" THEN WithCommas(l.int) ELSE l.int)
    \o (IF Len(l.frac) > 0 THEN <<".">> \o l.frac ELSE <<>>)
    \o l.suffix

\* the decimal literal without prefix, suffix and commas
PlainText(l) ==
    l.sign \o l.int \o (IF Len(l.frac) > 0 THEN <<".">> \o l.frac ELSE <<>>)

RECURSIVE PlaceValue(_)
\* the number a digit string denotes: the last digit plus ten times the rest
PlaceValue(ds) ==
    IF Len(ds) = 0 THEN 0
    ELSE DigitVal(ds[Len(ds)]) + 10 * PlaceValue(SubSeq(ds, 1, Len(ds) - 1))

\* the number the literal denotes, times 10^scale
LiteralValue(l, scale) ==
    LET mag == PlaceValue(l.int) * Pow10(Len(l.frac)) + PlaceValue(l.frac)
    IN  Num(IF Len(l.sign) > 0 THEN 0 - mag ELSE mag, scale - Len(l.frac))

IsLiteral(k) == k >= 1 /\ k <= NumLiterals

Cell(k) ==
    IF IsLiteral(k) THEN Str(LiteralText(LiteralParts(k)))
    ELSE Str(OtherTexts[k - NumLiterals])

\* the catalogue index of cell i of the series that starts at cell `start`
CellIndex(start, i) == ((start + i - 2) % NumCells) + 1

TextSeries(start, len) == [i \in 1..len |-> Cell(CellIndex(start, i))]

\* cells of a column that read_csv has already parsed as numbers
NumericCells == <<NaN, Num(0, 0), Num(1234, 0), Num(-5, -1), Inf(1)>>
NumericSeries(start, len) ==
    [i \in 1..len |-> NumericCells[((start + i - 2) % Len(NumericCells)) + 1]]

-----------------------------------------------------------------------------
(* The specification of clean_numeric_column: a series is chosen and the     *)
(* function is called on it once.                                            *)

CleanStart ==
    /\ cpc = "ready"
    /\ cleaned = <<>>
    /\ \E len \in 0..MaxSeriesLen :
        \/ \E start \in 1..NumCells :
              /\ origin = start
              /\ series = TextSeries(start, len)
        \/ \E start \in 1..Len(NumericCells) :
              /\ origin = 0
              /\ series = NumericSeries(start, len)

CleanIdle == cpc = "idle" /\ cleaned = <<>> /\ series = <<>> /\ origin = 0

CallCleanNumericColumn ==
    /\ cpc = "ready"
    /\ cleaned' = clean_numeric_column(series)
    /\ cpc' = "done"
    /\ UNCHANGED <<series, origin>>

\* the names _classify_continent is called on: every entry of the six lists
\* in upper, lower and capitalised case, and the names of OtherNames
Capitalised(s) == [i \in 1..Len(s) |-> IF i = 1 THEN UpperChar(s[i]) ELSE LowerChar(s[i])]
Cased(s, mode) ==
    IF mode = "upper" THEN Upper(s)
    ELSE IF mode = "lower" THEN Lower(s) ELSE Capitalised(s)

ContinentStart ==
    /\ kpc = "ready"
    /\ continent = "none"
    /\ \/ \E k \in 1..Len(ContinentLists) :
            \E j \in 1..Len(ContinentLists[k][2]) :
               \E mode \in {"upper", "lower", "capitalised"} :
                  country = Cased(ContinentLists[k][2][j], mode)
       \/ \E j \in 1..Len(OtherNames) : country = OtherNames[j]

ContinentIdle == kpc = "idle" /\ continent = "none" /\ country = <<>>

CallClassifyContinent ==
    /\ kpc = "ready"
    /\ continent' = classify_continent(country)
    /\ kpc' = "done"
    /\ UNCHANGED country

-----------------------------------------------------------------------------
(* The CSV files the processor is run on.  Every file has the Country       *)
(* column and one value column; no Country is blank.  The geography file    *)
(* has up to MaxGeoRows rows for the countries of GeoKeys (a country may    *)
(* repeat).  Each other file is regular (one row per country of GeoKeys) or *)
(* irregular (a repeated country, a country the geography file lacks and a  *)
(* country missing); at most MaxIrregular files are irregular, and the      *)
(* economy file may lack the Real_GDP_per_Capita_USD column.  In a second   *)
(* family all files are regular and the two GDP texts range over GdpTexts.  *)

MaxGeoRows == 2
MaxIrregular == 2
MaxCalls == 2

K_Peru == <<"P", "e", "r", "u">>
K_Chad == <<"C", "h", "a", "d">>
K_Fiji == <<"F", "i", "j", "i">>
GeoKeys == <<K_Peru, K_Chad>>
Regular == GeoKeys
Irregular == <<K_Peru, K_Peru, K_Fiji>>
OtherFiles == {"demographics", "economy", "energy", "transportation",
               "communications", "government"}

ValueTexts ==
    << <<"1", "2">> \o T_sqkm, <<"3", ",", "4", "0", "0">>,
       <<"7", ".", "5", "%">>, <<"N", "A">>, <<"2">> \o T_million,
       <<"8", "8">> >>

\* texts of the Real_GDP_per_Capita_USD column, around every bin edge
GdpTexts ==
    << <<"-", "1", "0", "0">>, <<"$", "0">>, <<"0", ".", "5">>,
       <<"$", "4", ",", "9", "9", "9">>, <<"5", "0", "0", "0">>,
       <<"$", "5", ",", "0", "0", "0", ".", "5">>,
       <<"1", "5", "0", "0", "0">>, <<"$", "1", "5", ",", "0", "0", "1">>,
       <<"3", "0", ",", "0", "0", "0">>, <<"3", "0", "0", "0", "0", ".", "1">>,
       <<"$", "1", "4", "0", ",", "0", "0", "0">>, <<"i", "n", "f">>,
       <<>>, <<"n", "/", "a">> >>

Pick(texts, k) == texts[((k - 1) % Len(texts)) + 1]

\* a file with the Country column and one value column, whose values are
\* the given texts
CsvFile(col, keys, texts) ==
    [cols |-> <<"Country", col>>,
     rows |-> [i \in 1..Len(keys) |->
                 [c \in {"Country", col} |->
                     IF c = "Country" THEN keys[i] ELSE texts[i]]]]

\* the texts of ValueTexts from the one after base on
Values(base) == [i \in 1..Len(Irregular) + MaxGeoRows |-> Pick(ValueTexts, base + i)]

GeoKeySeqs ==
    UNION {[1..n -> Range(GeoKeys)] : n \in 0..MaxGeoRows}

\* the seven files: the geography file with the keys geo, file f irregular
\* when f is in irr, the economy file with the GDP texts gdp, or without the
\* GDP column when gdp is empty
FilesFor(geo, irr, gdp) ==
    LET keys(f) == IF f \in irr THEN Irregular ELSE Regular
    IN  [geography |-> CsvFile("Area_Total", geo, Values(0)),
         demographics |-> CsvFile("Total_Population", keys("demographics"),
                                  Values(1)),
         economy |-> IF Len(gdp) = 0
                     THEN CsvFile("Real_GDP_PPP_billion_USD", keys("economy"),
                                  Values(2))
                     ELSE CsvFile("Real_GDP_per_Capita_USD", keys("economy"),
                                  gdp),
         energy |-> CsvFile("electricity_access_percent", keys("energy"),
                            Values(3)),
         transportation |-> CsvFile("roadways_km", keys("transportation"),
                                    Values(4)),
         communications |-> CsvFile("internet_users_total",
                                    keys("communications"), Values(5)),
         government |-> CsvFile("Suffrage_Age", keys("government"), Values(6))]

ProcessorStart ==
    /\ datasets = <<>>
    /\ merged_data = <<>>
    /\ loads = 0
    /\ merges = 0
    /\ log = <<>>
    /\ calls = 0
    /\ result = [call |-> "none", value |-> <<>>]
    /\ saved = <<>>
    /\ \/ \E geo \in GeoKeySeqs :
          \E irr \in {s \in SUBSET OtherFiles : Cardinality(s) <= MaxIrregular} :
          \E hasGdp \in BOOLEAN :
             files = FilesFor(geo, irr,
                              IF hasGdp
                              THEN <<GdpTexts[4], GdpTexts[6], GdpTexts[9]>>
                              ELSE <<>>)
       \/ \E g1 \in 1..Len(GdpTexts) :
          \E g2 \in 1..Len(GdpTexts) :
             files = FilesFor(GeoKeys, {}, <<GdpTexts[g1], GdpTexts[g2]>>)

ProcessorIdle ==
    /\ files = <<>> /\ datasets = <<>> /\ merged_data = <<>>
    /\ loads = 0 /\ merges = 0 /\ log = <<>> /\ calls = 0
    /\ result = [call |-> "none", value |-> <<>>]
    /\ saved = <<>>

\* the fields and the bookkeeping before a call
Self == [datasets |-> datasets, merged_data |-> merged_data,
         loads |-> loads, merges |-> merges, log |-> log]

\* the fields and the bookkeeping after a call that left them as st
Becomes(st) ==
    /\ datasets' = st.datasets
    /\ merged_data' = st.merged_data
    /\ loads' = st.loads
    /\ merges' = st.merges
    /\ log' = st.log
    /\ calls' = calls + 1
    /\ UNCHANGED files

\* get_metric_info(), st being the object once the guard has run
ReturnMetricInfo(st) ==
    /\ Becomes(st)
    /\ result' = [call |-> "get_metric_info",
                  value |-> get_metric_info(st.merged_data[1])]
    /\ UNCHANGED saved

GetMetricInfo ==
    /\ calls < MaxCalls
    /\ ReturnMetricInfo(EnsureMerged(Self, files))

ReturnCountryList(st) ==
    /\ Becomes(st)
    /\ result' = [call |-> "get_country_list",
                  value |-> get_country_list(st.merged_data[1])]
    /\ UNCHANGED saved

GetCountryList ==
    /\ calls < MaxCalls
    /\ ReturnCountryList(EnsureMerged(Self, files))

\* merged_data.csv gets the merged table, metrics_info.json what
\* get_metric_info returns (it runs its own guard, on the object as the
\* first guard left it)
WriteProcessedData(st, st2) ==
    /\ Becomes(st2)
    /\ saved' = <<[merged_data_csv |-> st.merged_data[1],
                   metrics_info_json |-> get_metric_info(st2.merged_data[1])]>>
    /\ result' = [call |-> "save_processed_data", value |-> <<>>]

SaveGuarded(st) == WriteProcessedData(st, EnsureMerged(st, files))

SaveProcessedData ==
    /\ calls < MaxCalls
    /\ SaveGuarded(EnsureMerged(Self, files))

-----------------------------------------------------------------------------
(* The map-click selection: store_selected_country and                      *)
(* sync_comparison_countries, over the stores selected-country and          *)
(* selected-countries and the countries-selector dropdown.  clickData is    *)
(* <<>> when it is None or empty, else <<[has_points, points]>>, a point    *)
(* being [is_dict, has_text, text].                                         *)

MaxSelected == 5

\* s[:]
KeepAll(s) == s

\* s[:5]
FirstFive(s) == SubSeq(s, 1, IF Len(s) < MaxSelected THEN Len(s) ELSE MaxSelected)

\* s[-5:]
LastFive(s) ==
    SubSeq(s, IF Len(s) > MaxSelected THEN Len(s) - MaxSelected + 1 ELSE 1, Len(s))

\* point.get("text", "Unknown")
PointTextOrUnknown(point) == IF point.has_text THEN point.text ELSE "Unknown"

\* point.get("text"): "" stands for None
PointText(point) == IF point.has_text THEN point.text ELSE ""

\* try: country = click_data["points"][0].get("text")
\* except Exception: country = None
ClickedCountry(cd) ==
    IF ~cd.has_points THEN ""
    ELSE IF Len(cd.points) = 0 THEN ""
    ELSE IF ~cd.points[1].is_dict THEN ""
    ELSE PointText(cd.points[1])

\* a re-click moves the country to the end of the list
AddCountryRefreshed(list, c) ==
    LastFive(Append(SelectSeq(list, LAMBDA x : x # c), c))

\* if country not in selected_countries:
\*     selected_countries = (selected_countries + [country])[-5:]
AddCountry(list, c) ==
    IF c \notin Range(list) THEN LastFive(Append(list, c)) ELSE list

\* store_selected_country(click_data, selected_countries): whether it raises
\* PreventUpdate, and else the two values it returns
store_selected_country(cdata, list) ==
    IF Len(cdata) = 0 \/ ClickedCountry(cdata[1]) = ""
    THEN [prevented |-> TRUE, country |-> "", countries |-> list]
    ELSE [prevented |-> FALSE, country |-> ClickedCountry(cdata[1]),
          countries |-> AddCountry(list, ClickedCountry(cdata[1]))]

\* sync_comparison_countries that keeps the value of the dropdown
sync_keeps_current(list, current_value) ==
    [no_update |-> FALSE, value |-> current_value]

\* sync_comparison_countries(selected_countries, current_value)
sync_comparison_countries(list, current_value) ==
    IF Len(list) = 0 THEN [no_update |-> TRUE, value |-> current_value]
    ELSE [no_update |-> FALSE, value |-> list]

\* the countries of the map
ClickNames == <<"Peru", "Chad", "Fiji", "Oman", "Cuba", "Mali">>

Point(name) == [is_dict |-> TRUE, has_text |-> TRUE, text |-> name]
ClickOn(points) == <<[has_points |-> TRUE, points |-> points]>>

\* click data without a usable country: None or {}, no 'points', no point,
\* a point that is no dict, a point without 'text', an empty 'text'
UnusableClicks ==
    {<<>>,
     <<[has_points |-> FALSE, points |-> <<>>]>>,
     ClickOn(<<>>),
     ClickOn(<<[is_dict |-> FALSE, has_text |-> FALSE, text |-> ""]>>),
     ClickOn(<<[is_dict |-> TRUE, has_text |-> FALSE, text |-> ""]>>),
     ClickOn(<<Point("")>>)}

\* the countries a click can name: the ones in the list, and of the others
\* the first of ClickNames (the code tells names apart by equality alone)
Clickable(list) ==
    Range(list) \cup
    {ClickNames[k] : k \in {k \in 1..Len(ClickNames) :
                               /\ ClickNames[k] \notin Range(list)
                               /\ \A h \in 1..(k - 1) :
                                      ClickNames[h] \in Range(list)}}

ClickDatas(list) ==
    UnusableClicks
    \cup {ClickOn(<<Point(n)>>) : n \in Clickable(list)}
    \cup {ClickOn(<<Point(n), Point("Peru")>>) : n \in Clickable(list)}

\* the layout: selected-country None, selected-countries [], no value in
\* the dropdown
SelectStart ==
    /\ selected_country = <<>>
    /\ selected_countries = <<>>
    /\ countries_selector = <<>>
    /\ click = <<>>
    /\ prevented = FALSE
    /\ sync = "idle"

SelectIdle == SelectStart

\* what an invocation of store_selected_country that returned r does
StoreReturns(r) ==
    /\ prevented' = r.prevented
    /\ selected_country' = IF r.prevented THEN selected_country ELSE <<r.country>>
    /\ selected_countries' = r.countries
    /\ sync' = IF r.prevented THEN sync ELSE "pending"
    /\ UNCHANGED countries_selector

\* a click on the map
StoreSelectedCountry ==
    \E cdata \in ClickDatas(selected_countries) :
        /\ click' = cdata
        /\ StoreReturns(store_selected_country(cdata, selected_countries))

SyncReturns(r) ==
    /\ countries_selector' = r.value
    /\ sync' = IF r.no_update THEN "no_update" ELSE "done"
    /\ UNCHANGED <<selected_country, selected_countries, click, prevented>>

\* Dash invokes the callback once selected-countries was written; here it
\* may be invoked at any time, on the value the store has
SyncComparisonCountries ==
    SyncReturns(sync_comparison_countries(selected_countries, countries_selector))

\* the user picks countries in the dropdown
UserSelectsCountries ==
    /\ \E value \in {<<>>, <<"Peru", "Mali">>, <<"Fiji">>} :
          /\ value # countries_selector
          /\ countries_selector' = value
    /\ sync' = "idle"
    /\ UNCHANGED <<selected_country, selected_countries, click, prevented>>

-----------------------------------------------------------------------------
(* Start-up: python runs run_app.py, which imports app, or app.py itself.   *)
(* app.py loads the data, builds the layout, registers the callbacks and,   *)
(* under its __main__ guard, starts the server.                             *)

\* __name__ inside app.py
ModuleName(script) == IF script = "app.py" THEN "__main__" ELSE "app"

\* pd.read_csv raises on a file without columns (EmptyDataError), and the
\* merge on 'Country' raises on a table without that column (KeyError)
LoadRaises(dir) == \E k \in 1..Len(DatasetNames) : ~HasColumn(dir[DatasetNames[k]], "Country")

EmptyFile == [cols |-> <<>>, rows |-> <<>>]

\* the files the application is started on
AppFiles ==
    {FilesFor(geo, irr, gdp) :
        geo \in {<<>>, <<K_Peru>>, GeoKeys},
        irr \in {{}, {"demographics"}},
        gdp \in {<<>>, <<GdpTexts[4], GdpTexts[6], GdpTexts[9]>>}}
    \cup {[FilesFor(GeoKeys, {}, <<>>) EXCEPT !.energy = EmptyFile],
          [FilesFor(GeoKeys, {}, <<>>) EXCEPT
              !.geography = CsvFile("Capital", GeoKeys, Values(0))],
          [FilesFor(GeoKeys, {}, <<>>) EXCEPT
              !.economy = SetColumn(CsvFile("Exports_billion_USD", Regular,
                                            Values(2)),
                                    "Real_GDP_per_Capita_USD",
                                    <<GdpTexts[4], GdpTexts[6]>>)]}

NoCallback == [callback |-> "none", kind |-> "none", rows |-> 0, out |-> <<>>]

AppStart ==
    /\ entry \in {"run_app.py", "app.py"}
    /\ env \in {[HOST |-> "127.0.0.1", PORT |-> 8050],
                [HOST |-> "0.0.0.0", PORT |-> 8080]}
    /\ rpc = IF entry = "run_app.py" THEN "start" ELSE "import"
    /\ server = <<>>
    /\ exit_code = <<>>
    /\ metrics_info = <<>>
    /\ country_list = <<>>
    /\ last = NoCallback
    /\ files \in AppFiles
    /\ datasets = <<>> /\ merged_data = <<>>
    /\ loads = 0 /\ merges = 0 /\ log = <<>> /\ calls = 0
    /\ result = [call |-> "none", value |-> <<>>]
    /\ saved = <<>>

AppIdle ==
    /\ entry = "none" /\ env = <<>> /\ rpc = "idle" /\ server = <<>>
    /\ exit_code = <<>> /\ metrics_info = <<>> /\ country_list = <<>>
    /\ last = NoCallback

\* a start-up step that moves to `next` and touches nothing else
Goes(next) ==
    /\ rpc' = next
    /\ UNCHANGED <<entry, env, server, exit_code, metrics_info, country_list,
                   last, processorVars, cleanVars,
                   continentVars, selectVars>>

\* run_app.py: the banner, then `import app`
PrintBanner == entry = "run_app.py" /\ rpc = "start" /\ Goes("import")

\* app.py: the imports, the configuration and dash.Dash(...)
ImportApp == rpc = "import" /\ Goes("load")

\* an exception at the top level of app.py: caught by run_app.py, or the
\* end of the process when app.py is the script
Raises ==
    /\ rpc' = IF entry = "run_app.py" THEN "except" ELSE "exited"
    /\ exit_code' = IF entry = "run_app.py" THEN <<>> ELSE <<1>>
    /\ UNCHANGED <<entry, env, server, metrics_info, country_list, last,
                   processorVars, cleanVars,
                   continentVars, selectVars>>

\* processor.merge_datasets(), get_metric_info() and get_country_list(), st
\* being the processor once merge_datasets has run
Loaded(st) ==
    /\ datasets' = st.datasets
    /\ merged_data' = st.merged_data
    /\ loads' = st.loads /\ merges' = st.merges /\ log' = st.log
    /\ metrics_info' = get_metric_info(st.merged_data[1])
    /\ country_list' = get_country_list(st.merged_data[1])
    /\ rpc' = "build"
    /\ UNCHANGED <<entry, env, server, exit_code, last, files, calls, result,
                   saved, cleanVars, continentVars, selectVars>>

\* app.py: processor = DataProcessor(...) and the three calls on it
LoadData ==
    /\ rpc = "load"
    /\ IF LoadRaises(files) THEN Raises
       ELSE Loaded(MergeDatasetsCall(Self, files))

\* app.py: the factory, the layout and register_callbacks
BuildLayoutAndRegister == rpc = "build" /\ Goes("guard")

\* app.py: if __name__ == '__main__': app.run_server(...), which serves
\* until the process is stopped; else the import is over
MainGuard ==
    /\ rpc = "guard"
    /\ rpc' = IF ModuleName(entry) = "__main__" THEN "serving" ELSE "imported"
    /\ server' = IF ModuleName(entry) = "__main__"
                 THEN <<[host |-> env.HOST, port |-> env.PORT]>>
                 ELSE server
    /\ UNCHANGED <<entry, env, exit_code, metrics_info, country_list, last,
                   processorVars, cleanVars,
                   continentVars, selectVars>>

\* a step of run_app.py that ends the process with the given code
Exits(code) ==
    /\ rpc' = "exited"
    /\ exit_code' = <<code>>
    /\ UNCHANGED <<entry, env, server, metrics_info, country_list, last,
                   processorVars, cleanVars,
                   continentVars, selectVars>>

\* run_app.py: the two lines printed after the import, and the end of the
\* script
ReportLoaded == rpc = "imported" /\ Exits(0)

\* run_app.py: the except block, ending in sys.exit(1)
ReportError == rpc = "except" /\ Exits(1)

Startup ==
    \/ PrintBanner
    \/ ImportApp
    \/ LoadData
    \/ BuildLayoutAndRegister
    \/ MainGuard
    \/ ReportLoaded
    \/ ReportError

-----------------------------------------------------------------------------
(* The callbacks of register_callbacks.  They close over merged_data,       *)
(* metrics_info and viz_factory.  DataFrames are objects on a heap: a frame *)
(* is [h, id], the heap and the index of the frame in it, and index 1 is    *)
(* the shared merged_data.  A callback ends by returning a figure, the      *)
(* placeholder of _safe_figure or another value, or by raising.             *)

\* the methods that class VisualizationFactory defines
FactoryMethods ==
    {"create_choropleth_map", "create_3d_globe", "create_comparison_radar",
     "create_comparison_heatmap", "create_comparison_scatter",
     "create_scatter_correlation", "create_regional_bar_chart",
     "create_sunburst_chart", "create_heatmap_correlation",
     "create_animated_timeline"}

\* viz_factory.<name> is an attribute; AttributeError when it is not
HasMethod(name) == name \in FactoryMethods

Shared == [h |-> merged_data, id |-> 1]
Frame(f) == f.h[f.id]

\* df.copy(): a new frame with the same content
CopyFrame(f) == [h |-> Append(f.h, Frame(f)), id |-> Len(f.h) + 1]

\* df[mask], df.dropna(...): a new frame of the rows that satisfy keep
Taken(f, keep(_)) ==
    [h |-> Append(f.h, [cols |-> Frame(f).cols,
                        rows |-> SelectSeq(Frame(f).rows, keep)]),
     id |-> Len(f.h) + 1]

\* df[mask] written back over the frame itself
Dropped(f, keep(_)) ==
    [h |-> [f.h EXCEPT ![f.id] = [cols |-> Frame(f).cols,
                                  rows |-> SelectSeq(Frame(f).rows, keep)]],
     id |-> f.id]

\* df[col] = values: the frame itself gets the column
SetFrameColumn(f, col, values) ==
    [h |-> [f.h EXCEPT ![f.id] = SetColumn(Frame(f), col, values)], id |-> f.id]

\* _normalize_multi on a list: its truthy elements (None is the empty list)
_normalize_multi(value) == SelectSeq(value, LAMBDA v : v # "")

\* series.astype(str) on a label
AsStr(c) == IF IsNull(c) THEN "nan" ELSE c.s

\* series.isin(values) on a label
IsIn(c, values) == ~IsNull(c) /\ c.s \in Range(values)

FilterBy(f, col, values) ==
    IF values # <<>> /\ HasColumn(Frame(f), col)
    THEN Taken(f, LAMBDA r : AsStr(r[col]) \in Range(values))
    ELSE f

_apply_filters(f, continents, dev_levels) ==
    FilterBy(FilterBy(f, "Continent", _normalize_multi(continents)),
             "Development_Level", _normalize_multi(dev_levels))

\* the filters applied to the shared frame itself, rows dropped in place
FilteredInPlace(continents, dev_levels) ==
    LET conts == _normalize_multi(continents)
        devs == _normalize_multi(dev_levels)
    IN  Dropped(Shared,
                LAMBDA r :
                    /\ conts # <<>> => AsStr(r["Continent"]) \in Range(conts)
                    /\ (devs # <<>> /\ HasColumn(Frame(Shared), "Development_Level"))
                          => AsStr(r["Development_Level"]) \in Range(devs))

\* _apply_filters(merged_data.copy(), continents, dev_levels)
FilteredCopy(continents, dev_levels) ==
    _apply_filters(CopyFrame(Shared), continents, dev_levels)

\* df.dropna(subset=cols)
NoNulls(cols, r) == \A c \in cols : ~IsNull(r[c])
IsEmpty(df, cols) == SelectSeq(df.rows, LAMBDA r : NoNulls(cols, r)) = <<>>

\* _get_default_metric: the first metric of the first category, "" for None
_get_default_metric ==
    IF Len(metrics_info) > 0 /\ Len(metrics_info[1][2]) > 0
    THEN metrics_info[1][2][1].name
    ELSE ""

\* metric, or the default when it is not given
Chosen(metric) == IF metric = "" THEN _get_default_metric ELSE metric

\* _safe_figure: the placeholder, through viz_factory.apply_theme
_safe_figure == IF HasMethod("apply_theme") THEN "placeholder" ELSE "raised"

\* a figure built by the factory method and passed to apply_theme; fails
\* says whether the method raises
Themed(method, fails) ==
    IF HasMethod("apply_theme") /\ HasMethod(method) /\ ~fails THEN "figure"
    ELSE "raised"

\* a figure built by plotly itself and passed to apply_theme
ThemedPlot(fails) ==
    IF HasMethod("apply_theme") /\ ~fails THEN "figure" ELSE "raised"

\* try: ... except Exception: return _safe_figure(...)
Caught(kind) == IF kind = "raised" THEN _safe_figure ELSE kind

\* what a callback that is not a chart returns when its figure is kind
Other(kind) == IF kind = "raised" THEN "raised" ELSE "value"

Done(kind, f) == [kind |-> kind, h |-> f.h, rows |-> Len(Frame(f).rows)]

\* the callback `name` ends as r says, with the outputs out; the frames it
\* made are garbage
Outputs(name, r, out) ==
    /\ last' = [callback |-> name, kind |-> r.kind, rows |-> r.rows,
                out |-> out]
    /\ merged_data' = SubSeq(r.h, 1, 1)
    /\ UNCHANGED <<entry, env, rpc, server, exit_code, metrics_info,
                   country_list, files, datasets, loads, merges, log, calls,
                   result, saved, cleanVars, continentVars, selectVars>>

\* the same, for a callback whose outputs are not looked at
Returns(name, r) == Outputs(name, r, <<>>)

Themes == {"light", "dark"}
Metrics == {"", "Area_Total", "Real_GDP_per_Capita_USD", "Median_Age"}
VizTypes == {"", "choropleth", "globe", "sunburst", "regional", "table"}
ContinentFilters == {<<>>, <<"South America">>, <<"Europe", "">>}
DevFilters == {<<>>, <<"Low Income">>}
Domains == {"", "Economy", "Geography", "History"}
SelectedCountries == {<<>>, K_Peru, K_Fiji}
CountrySelections == {<<>>, <<K_Peru>>, <<K_Peru, K_Chad>>}
MetricSelections ==
    {<<>>, <<"Area_Total">>,
     <<"Area_Total", "Total_Population", "roadways_km">>}
ChartTypes == {"radar", "bar", "pie"}

set_theme ==
    /\ rpc = "serving"
    /\ \E is_dark \in BOOLEAN : Returns("set_theme", Done("value", Shared))

\* domain in metrics_info
HasDomain(info, domain) == \E k \in 1..Len(info) : info[k][1] = domain

\* metrics_info[domain]
DomainMetrics(info, domain) ==
    info[CHOOSE k \in 1..Len(info) : info[k][1] = domain][2]

\* the options (each by its value, the labels left out) and the default
\* value, "" for None
OptionsFor(metrics) ==
    [options |-> [j \in 1..Len(metrics) |-> metrics[j].name],
     value |-> IF Len(metrics) > 0 THEN metrics[1].name ELSE ""]

\* the options of the first domain, whatever the domain is
FirstDomainOptions(info, domain) ==
    IF Len(info) > 0 THEN OptionsFor(info[1][2])
    ELSE [options |-> <<>>, value |-> ""]

\* what update_metric_options returns for the domain, "" being None
MetricOptions(info, domain) ==
    IF domain # "" /\ HasDomain(info, domain)
    THEN OptionsFor(DomainMetrics(info, domain))
    ELSE IF Len(info) > 0 /\ info[1][1] # ""
    THEN OptionsFor(info[1][2])
    ELSE [options |-> <<>>, value |-> ""]

update_metric_options ==
    /\ rpc = "serving"
    /\ \E domain \in Domains :
         Outputs("update_metric_options", Done("value", Shared),
                 [domain |-> domain,
                  returned |-> MetricOptions(metrics_info, domain)])

update_comparison_metrics ==
    /\ rpc = "serving"
    /\ \E domain \in Domains :
         Returns("update_comparison_metrics", Done("value", Shared))

\* all_metrics[0] raises IndexError when no category has a metric
update_correlation_options ==
    /\ rpc = "serving"
    /\ \E domain \in Domains :
         Returns("update_correlation_options",
                 Done(IF \A k \in 1..Len(metrics_info) :
                            Len(metrics_info[k][2]) = 0
                      THEN "raised" ELSE "value", Shared))

update_filter_options ==
    /\ rpc = "serving"
    /\ \E domain \in Domains :
         Returns("update_filter_options", Done("value", Shared))

MainMethod(viz_type) ==
    CASE viz_type = "globe" -> "create_3d_globe"
      [] viz_type = "sunburst" -> "create_sunburst_chart"
      [] viz_type = "regional" -> "create_regional_bar_chart"
      [] OTHER -> "create_choropleth_map"

\* the checks that the map, the ranking and the scatter make on the
\* filtered frame before the figure is built
Checked(df, cols, kind) ==
    IF df.rows = <<>> THEN _safe_figure
    ELSE IF \E c \in cols : ~HasColumn(df, c) THEN _safe_figure
    ELSE IF IsEmpty(df, cols) THEN _safe_figure
    ELSE kind

MainVisualization(f, metric, viz_type, fails) ==
    Done(Caught(Checked(Frame(f), {metric},
                        Themed(MainMethod(viz_type), fails))), f)

update_main_visualization ==
    /\ rpc = "serving"
    /\ \E metric \in Metrics, viz_type \in VizTypes,
          continents \in ContinentFilters, dev_levels \in DevFilters,
          fails \in BOOLEAN :
         Returns("update_main_visualization",
                 IF Chosen(metric) = "" THEN Done(_safe_figure, Shared)
                 ELSE MainVisualization(FilteredCopy(continents, dev_levels),
                                        Chosen(metric), viz_type, fails))

ComparisonChart(countries, metrics_list, chart_type, fails) ==
    IF Len(countries) < 2 THEN _safe_figure
    ELSE IF chart_type = "radar"
    THEN IF Len(metrics_list) < 3 THEN _safe_figure
         ELSE Themed("create_comparison_radar", fails)
    ELSE IF chart_type = "bar"
    THEN IF Len(metrics_list) < 1 THEN _safe_figure
         ELSE Themed("create_comparison_bar", fails)
    ELSE _safe_figure

update_comparison_chart ==
    /\ rpc = "serving"
    /\ \E countries \in CountrySelections, metrics \in MetricSelections,
          chart_type \in ChartTypes, fails \in BOOLEAN :
         Returns("update_comparison_chart",
                 Done(Caught(ComparisonChart(countries,
                                             _normalize_multi(metrics),
                                             chart_type, fails)), Shared))

\* the scatter, then the heatmap
CorrelationCharts(fails) ==
    IF Themed("create_scatter_correlation", fails) = "raised" THEN "raised"
    ELSE Themed("create_heatmap_correlation", fails)

update_correlation_chart ==
    /\ rpc = "serving"
    /\ \E x_metric \in Metrics, y_metric \in Metrics, fails \in BOOLEAN :
         Returns("update_correlation_chart",
                 Done(IF x_metric = "" \/ y_metric = "" THEN _safe_figure
                      ELSE Caught(CorrelationCharts(fails)), Shared))

update_regional_chart ==
    /\ rpc = "serving"
    /\ \E metric \in Metrics, fails \in BOOLEAN :
         Returns("update_regional_chart",
                 Done(IF Chosen(metric) = "" THEN _safe_figure
                      ELSE Caught(Themed("create_regional_bar_chart", fails)),
                      Shared))

RankChart(f, metric, fails) ==
    Done(Caught(Checked(Frame(f), {metric},
                        Themed("create_ranking_bar", fails))), f)

update_rank_chart ==
    /\ rpc = "serving"
    /\ \E metric \in Metrics, continents \in ContinentFilters,
          dev_levels \in DevFilters, fails \in BOOLEAN :
         Returns("update_rank_chart",
                 IF Chosen(metric) = "" THEN Done(_safe_figure, Shared)
                 ELSE RankChart(FilteredCopy(continents, dev_levels),
                                Chosen(metric), fails))

\* the reference metric of the scatter
Reference(df, metric, domain) ==
    LET ref == IF domain = "Geography" THEN "Total_Population"
               ELSE "Real_GDP_per_Capita_USD"
    IN  IF HasColumn(df, ref) THEN ref
        ELSE IF HasColumn(df, "Real_GDP_per_Capita_USD")
        THEN "Real_GDP_per_Capita_USD"
        ELSE metric

OverviewScatter(f, metric, domain, fails) ==
    Done(Caught(Checked(Frame(f), {metric, Reference(Frame(f), metric, domain)},
                        Themed("create_metric_vs_reference_scatter", fails))),
         f)

update_overview_scatter ==
    /\ rpc = "serving"
    /\ \E metric \in Metrics, domain \in Domains,
          continents \in ContinentFilters, dev_levels \in DevFilters,
          fails \in BOOLEAN :
         Returns("update_overview_scatter",
                 IF Chosen(metric) = "" THEN Done(_safe_figure, Shared)
                 ELSE OverviewScatter(FilteredCopy(continents, dev_levels),
                                      Chosen(metric), domain, fails))

update_overview_regional ==
    /\ rpc = "serving"
    /\ \E metric \in Metrics, continents \in ContinentFilters,
          dev_levels \in DevFilters, fails \in BOOLEAN :
         Returns("update_overview_regional",
                 IF Chosen(metric) = "" THEN Done(_safe_figure, Shared)
                 ELSE Done(Caught(Themed("create_regional_bar_chart", fails)),
                           FilteredCopy(continents, dev_levels)))

\* dropna on a column that is missing raises KeyError; the box plot is
\* plotly's own
OverviewSpread(f, metric, fails) ==
    Done(Caught(IF ~HasColumn(Frame(f), metric) THEN "raised"
                ELSE IF IsEmpty(Frame(f), {metric})
                        \/ ~HasColumn(Frame(f), "Continent")
                THEN _safe_figure
                ELSE ThemedPlot(fails)), f)

update_overview_spread ==
    /\ rpc = "serving"
    /\ \E metric \in Metrics, continents \in ContinentFilters,
          dev_levels \in DevFilters, fails \in BOOLEAN :
         Returns("update_overview_spread",
                 IF Chosen(metric) = "" THEN Done(_safe_figure, Shared)
                 ELSE OverviewSpread(FilteredCopy(continents, dev_levels),
                                     Chosen(metric), fails))

\* df_filtered[metric] raises KeyError when the column is missing
Insights(f, metric) ==
    Done(IF HasColumn(Frame(f), metric) THEN "value" ELSE "raised", f)

update_insights ==
    /\ rpc = "serving"
    /\ \E metric \in Metrics, continents \in ContinentFilters,
          dev_levels \in DevFilters :
         Returns("update_insights",
                 IF Chosen(metric) = "" THEN Done("value", Shared)
                 ELSE Insights(FilteredCopy(continents, dev_levels),
                               Chosen(metric)))

\* merged_data.copy(), then the two filters as they are written here:
\* isin on the raw lists, on columns that are taken to be there
DataTable(continents, dev_levels, metric) ==
    LET c == CopyFrame(Shared)
        f == IF continents = <<>> THEN c
             ELSE Taken(c, LAMBDA r : IsIn(r["Continent"], continents))
    IN  IF dev_levels # <<>> /\ ~HasColumn(Frame(f), "Development_Level")
        THEN Done("raised", f)
        ELSE IF dev_levels # <<>>
        THEN Done(IF HasColumn(Frame(f), metric) THEN "value" ELSE "raised",
                  Taken(f, LAMBDA r : IsIn(r["Development_Level"], dev_levels)))
        ELSE Done(IF HasColumn(Frame(f), metric) THEN "value" ELSE "raised", f)

update_data_table ==
    /\ rpc = "serving"
    /\ \E metric \in Metrics, continents \in ContinentFilters,
          dev_levels \in DevFilters :
         Returns("update_data_table",
                 IF Chosen(metric) = "" THEN Done("value", Shared)
                 ELSE DataTable(continents, dev_levels, Chosen(metric)))

\* series.rank(ascending=False, method="min")
Ranks(ser) ==
    [i \in 1..Len(ser) |->
        Num(1 + Cardinality({j \in 1..Len(ser) : Less(ser[i], ser[j])}), 0)]

\* df["__rank"] = df[metric].rank(...)
Ranked(f, metric) == SetFrameColumn(f, "__rank", Ranks(Column(Frame(f), metric)))

\* the rank section: df_valid is a new frame, and so is cont_df
RankSection(selected, metric) ==
    LET df_valid == Taken(Shared, LAMBDA r : NoNulls({"Country", metric}, r))
    IN  IF \E i \in 1..Len(Frame(df_valid).rows) :
              Frame(df_valid).rows[i]["Country"].s = selected
        THEN Ranked(Taken(Ranked(df_valid, metric),
                          LAMBDA r : \E i \in 1..Len(Frame(Shared).rows) :
                              /\ Frame(Shared).rows[i]["Country"].s
                                    = selected
                              /\ Frame(Shared).rows[i]["Continent"]
                                    = r["Continent"]),
                    metric)
        ELSE df_valid

\* the panel for a country that has a row
DetailsPanel(selected, metric) ==
    IF metric # "" /\ ~HasMethod("_label") THEN Done("raised", Shared)
    ELSE Done(Other(ThemedPlot(FALSE)),
              IF metric # "" /\ HasColumn(Frame(Shared), metric)
              THEN RankSection(selected, metric)
              ELSE Shared)

update_details_panel ==
    /\ rpc = "serving"
    /\ \E selected \in SelectedCountries, metric \in Metrics :
         Returns("update_details_panel",
                 IF \/ selected = <<>>
                    \/ \A i \in 1..Len(Frame(Shared).rows) :
                          \/ IsNull(Frame(Shared).rows[i]["Country"])
                          \/ Frame(Shared).rows[i]["Country"].s
                                # selected
                 THEN Done(Other(_safe_figure), Shared)
                 ELSE DetailsPanel(selected, metric))

update_distribution ==
    /\ rpc = "serving"
    /\ \E metric \in Metrics, continents \in ContinentFilters,
          dev_levels \in DevFilters, fails \in BOOLEAN :
         Returns("update_distribution",
                 IF Chosen(metric) = "" THEN Done(_safe_figure, Shared)
                 ELSE Done(Caught(Themed("create_distribution_chart", fails)),
                           FilteredCopy(continents, dev_levels)))

\* the callbacks whose output is one or two figures, behind try/except
ChartCallbacks ==
    {"update_main_visualization", "update_comparison_chart",
     "update_correlation_chart", "update_regional_chart", "update_rank_chart",
     "update_overview_scatter", "update_overview_regional",
     "update_overview_spread", "update_distribution"}

Callback ==
    \/ set_theme
    \/ update_metric_options
    \/ update_comparison_metrics
    \/ update_correlation_options
    \/ update_filter_options
    \/ update_main_visualization
    \/ update_comparison_chart
    \/ update_correlation_chart
    \/ update_regional_chart
    \/ update_rank_chart
    \/ update_overview_scatter
    \/ update_overview_regional
    \/ update_overview_spread
    \/ update_insights
    \/ update_data_table
    \/ update_details_panel
    \/ update_distribution

CleanInit == CleanStart /\ ContinentIdle /\ ProcessorIdle /\ SelectIdle
             /\ AppIdle
CleanNext ==
    CallCleanNumericColumn /\ UNCHANGED <<continentVars, processorVars, selectVars, appVars>>
SpecClean == CleanInit /\ [][CleanNext]_vars

ContinentInit == ContinentStart /\ CleanIdle /\ ProcessorIdle /\ SelectIdle
             /\ AppIdle
ContinentNext ==
    CallClassifyContinent /\ UNCHANGED <<cleanVars, processorVars, selectVars, appVars>>
SpecContinent == ContinentInit /\ [][ContinentNext]_vars

Init == ProcessorStart /\ CleanIdle /\ ContinentIdle /\ SelectIdle /\ AppIdle
Next ==
    \/ GetMetricInfo /\ UNCHANGED <<cleanVars, continentVars, selectVars, appVars>>
    \/ GetCountryList /\ UNCHANGED <<cleanVars, continentVars, selectVars, appVars>>
    \/ SaveProcessedData /\ UNCHANGED <<cleanVars, continentVars, selectVars, appVars>>
Spec == Init /\ [][Next]_vars

SelectInit ==
    SelectStart /\ CleanIdle /\ ContinentIdle /\ ProcessorIdle /\ AppIdle
SelectNext ==
    \/ StoreSelectedCountry /\ UNCHANGED <<cleanVars, continentVars, processorVars, appVars>>
    \/ SyncComparisonCountries /\ UNCHANGED <<cleanVars, continentVars, processorVars, appVars>>
    \/ UserSelectsCountries /\ UNCHANGED <<cleanVars, continentVars, processorVars, appVars>>
SpecSelect == SelectInit /\ [][SelectNext]_vars

AppInit == AppStart /\ CleanIdle /\ ContinentIdle /\ SelectIdle
AppNext == Startup \/ Callback
SpecApp == AppInit /\ [][AppNext]_vars /\ WF_vars(Startup)

\* the literal behind cell i of the series, when it is one
FromLiteral(i) == origin > 0 /\ IsLiteral(CellIndex(origin, i))
LiteralOf(i) == LiteralParts(CellIndex(origin, i))

HasDigit(s) == \E j \in 1..Len(s) : IsDigit(s[j])

-----------------------------------------------------------------------------
(* Claims about clean_numeric_column (checked under SpecClean) *)

\* C1: clean_numeric_column is total on string input: the returned series has
\* the length of the series passed in, every cell of it is a number or null
\* (never text), and a text without any digit (the empty text and 'nan'
\* among them) never becomes a finite number: it becomes null, or an
\* infinity when it spells one.
C1_TotalOnStrings ==
    cpc = "done" =>
        /\ Len(cleaned) = Len(series)
        /\ \A i \in 1..Len(cleaned) :
            /\ IsNumber(cleaned[i]) \/ IsNull(cleaned[i])
            /\ (series[i].t = "str" /\ ~HasDigit(series[i].s))
                  => cleaned[i].t # "num"
            /\ (series[i].t = "str"
                /\ series[i].s \in {<<>>, T_nan, <<"a", "b", "c">>})
                  => IsNull(cleaned[i])

\* a series holding the empty text, a text without digits and 'nan' has been
\* cleaned to three nulls
C1_Witness ==
    /\ cpc = "done"
    /\ Len(series) = 3
    /\ series[1] = Str(<<>>)
    /\ series[2] = Str(<<"a", "b", "c">>)
    /\ series[3] = Str(T_nan)
    /\ \A i \in 1..3 : IsNull(cleaned[i])

\* C2: thousands separators and percent signs are removed: a decimal literal
\* written with commas between its digit groups and/or a trailing '%' parses
\* to the number the literal denotes.
C2_CommasAndPercent ==
    cpc = "done" =>
        \A i \in 1..Len(series) :
            (/\ FromLiteral(i)
             /\ LiteralOf(i).prefix = <<>>
             /\ LiteralOf(i).suffix \in {<<>>, T_percent})
            => cleaned[i] = LiteralValue(LiteralOf(i), 0)

\* '-1,234,567.05%' has been cleaned to -1234567.05
C2_Witness ==
    /\ cpc = "done"
    /\ \E i \in 1..Len(series) :
        /\ FromLiteral(i)
        /\ series[i].s = <<"-", "1", ",", "2", "3", "4", ",", "5", "6", "7",
                           ".", "0", "5", "%">>
        /\ cleaned[i] = Num(-123456705, -2)

\* C3: magnitude words are converted: a decimal literal n followed by
\* 'million' or 'billion', with or without a separating space and with or
\* without a leading '$', parses to n * 10^6 or n * 10^9.
C3_MagnitudeWords ==
    cpc = "done" =>
        \A i \in 1..Len(series) :
            FromLiteral(i) =>
                /\ LiteralOf(i).suffix \in {T_million, T_spMillion}
                      => cleaned[i] = LiteralValue(LiteralOf(i), 6)
                /\ LiteralOf(i).suffix \in {T_billion, T_spBillion}
                      => cleaned[i] = LiteralValue(LiteralOf(i), 9)

\* C4: unit markers are stripped: a plain decimal literal n followed by one of
\* ' sq km', ' km', ' m', ' bbl/day', ' kW', ' Mt', or preceded by '$', is
\* cleaned to exactly the text of n (no fragment of the unit is left) and
\* parses to n.
C4_UnitsStripped ==
    cpc = "done" =>
        \A i \in 1..Len(series) :
            (/\ FromLiteral(i)
             /\ LiteralOf(i).grouping = "plain"
             /\ \/ /\ LiteralOf(i).prefix = <<>>
                   /\ \E u \in 1..Len(Units) : LiteralOf(i).suffix = Units[u]
                \/ /\ LiteralOf(i).prefix = T_dollar
                   /\ LiteralOf(i).suffix = <<>>)
            => /\ CleanText(series[i]) = PlainText(LiteralOf(i))
               /\ cleaned[i] = LiteralValue(LiteralOf(i), 0)

\* '42.5 sq km', '42.5 km' and '42.5 m' have each been cleaned to 42.5
C4_Witness ==
    /\ cpc = "done"
    /\ Len(series) = 3
    /\ series[1].s = <<"4", "2", ".", "5">> \o T_sqkm
    /\ series[2].s = <<"4", "2", ".", "5">> \o T_km
    /\ series[3].s = <<"4", "2", ".", "5">> \o T_m
    /\ \A i \in 1..3 : FromLiteral(i) /\ cleaned[i] = Num(425, -1)

-----------------------------------------------------------------------------
(* Claims about _classify_continent (checked under SpecContinent) *)

ContinentNames ==
    {"Asia", "Europe", "Africa", "North America", "South America", "Oceania"}

\* C7: the continent is a static lookup: a name that is an entry of one of
\* the six lists, in any letter case, is classified as the continent of the
\* list that holds it.
C7_EntryGetsItsContinent ==
    kpc = "done" =>
        \A k \in 1..Len(ContinentLists) :
            \A j \in 1..Len(ContinentLists[k][2]) :
                Upper(country) = ContinentLists[k][2][j]
                    => continent = ContinentLists[k][1]

\* list k has an entry that is a substring of the upper-cased name
ListMatches(k) ==
    \E j \in 1..Len(ContinentLists[k][2]) :
        \E i \in 0..(Len(country) - Len(ContinentLists[k][2][j])) :
            \A d \in 1..Len(ContinentLists[k][2][j]) :
                UpperChar(country[i + d]) = ContinentLists[k][2][j][d]

\* C8: _classify_continent returns exactly one of the six continents or
\* 'Other'; 'Other' exactly when no entry of any list is a substring of the
\* upper-cased name; otherwise the continent of the first list, in the order
\* Asia, Europe, Africa, North America, South America, Oceania, that has such
\* an entry.
C8_FirstMatchingList ==
    kpc = "done" =>
        /\ continent \in ContinentNames \cup {"Other"}
        /\ continent = "Other" <=> \A k \in 1..Len(ContinentLists) : ~ListMatches(k)
        /\ \A k \in 1..Len(ContinentLists) :
              (ListMatches(k) /\ \A h \in 1..(k - 1) : ~ListMatches(h))
                  => continent = ContinentLists[k][1]
        /\ ContinentLists[1][1] = "Asia" /\ ContinentLists[2][1] = "Europe"
        /\ ContinentLists[3][1] = "Africa" /\ ContinentLists[4][1] = "North America"
        /\ ContinentLists[5][1] = "South America" /\ ContinentLists[6][1] = "Oceania"

\* 'Papua New Guinea' holds an entry of the Africa list (GUINEA) and one of
\* the Oceania list, and has been classified by the earlier list
C8_Witness ==
    /\ kpc = "done"
    /\ country = <<"P", "a", "p", "u", "a", " ", "N", "e", "w", " ",
                   "G", "u", "i", "n", "e", "a">>
    /\ ListMatches(3) /\ ListMatches(6) /\ ~ListMatches(1) /\ ~ListMatches(2)
    /\ continent = "Africa"

-----------------------------------------------------------------------------
(* Claims about merge_datasets and the lifecycle (checked under Spec) *)

Merged == merged_data[1]
IsMerged == Len(merged_data) = 1

\* the Country values of a file, and whether no two rows share one
FileCountries(f) == {files[f].rows[i]["Country"] : i \in 1..Len(files[f].rows)}
FileKeysDistinct(f) ==
    \A i, j \in 1..Len(files[f].rows) :
        files[f].rows[i]["Country"] = files[f].rows[j]["Country"] => i = j

MergedCountries == {Merged.rows[i]["Country"].s : i \in 1..Len(Merged.rows)}
MergedKeysDistinct ==
    \A i, j \in 1..Len(Merged.rows) :
        Merged.rows[i]["Country"] = Merged.rows[j]["Country"] => i = j

ValueColumns(f) == Range(files[f].cols) \ {"Country"}

\* C6: the merge is a left join on Country from the geography table: the
\* merged table has exactly the Country values of the geography file; a
\* country only another file has is dropped, and a geography country another
\* file lacks is kept with null in the columns of that file.
C6_GeographyIsTheBase ==
    IsMerged =>
        /\ MergedCountries = FileCountries("geography")
        /\ \A f \in OtherFiles :
           \A i \in 1..Len(Merged.rows) :
              Merged.rows[i]["Country"].s \notin FileCountries(f)
                 => \A c \in ValueColumns(f) : IsNull(Merged.rows[i][c])

\* the demographics file has Fiji, which geography lacks, and lacks Chad,
\* which geography has: Fiji is not in the merged table and Chad is, with a
\* null Total_Population
C6_Witness ==
    /\ IsMerged
    /\ K_Fiji \in FileCountries("demographics")
    /\ K_Fiji \notin MergedCountries
    /\ K_Chad \in FileCountries("geography")
    /\ K_Chad \notin FileCountries("demographics")
    /\ \E i \in 1..Len(Merged.rows) :
          /\ Merged.rows[i]["Country"].s = K_Chad
          /\ IsNull(Merged.rows[i]["Total_Population"])

\* the level the claim gives for a GDP per capita g ("null" for no level)
ClaimedLevel(g) ==
    IF ~IsNumber(g) \/ LessEq(g, Num(0, 0)) THEN "null"
    ELSE IF LessEq(g, Num(5000, 0)) THEN "Low Income"
    ELSE IF LessEq(g, Num(15000, 0)) THEN "Lower Middle"
    ELSE IF LessEq(g, Num(30000, 0)) THEN "Upper Middle"
    ELSE "High Income"

LevelRank(l) ==
    IF l = "null" THEN 0
    ELSE CHOOSE k \in 1..Len(CutLabels) : CutLabels[k] = l

HasGdp == IsMerged /\ HasColumn(Merged, "Real_GDP_per_Capita_USD")
Gdp(i) == Merged.rows[i]["Real_GDP_per_Capita_USD"]
\* the Development_Level of row i, "null" when it has none
Level(i) ==
    IF IsNull(Merged.rows[i]["Development_Level"]) THEN "null"
    ELSE Merged.rows[i]["Development_Level"].s

\* C9: Development_Level bins Real_GDP_per_Capita_USD g with right-closed
\* bins: 'Low Income' for 0 < g <= 5000, 'Lower Middle' for 5000 < g <= 15000,
\* 'Upper Middle' for 15000 < g <= 30000, 'High Income' for g > 30000, null
\* when g is null or g <= 0; and of two rows the one with the larger g never
\* has the lower level.
C9_DevelopmentLevelBins ==
    HasGdp =>
        /\ HasColumn(Merged, "Development_Level")
        /\ \A i \in 1..Len(Merged.rows) : Level(i) = ClaimedLevel(Gdp(i))
        /\ \A i, j \in 1..Len(Merged.rows) :
              (IsNumber(Gdp(i)) /\ IsNumber(Gdp(j)) /\ LessEq(Gdp(i), Gdp(j)))
                  => LevelRank(Level(i)) <= LevelRank(Level(j))

\* a country with g = 5000 is 'Low Income' and one with g = 5000.5 is
\* 'Lower Middle'
C9_Witness ==
    /\ HasGdp
    /\ Len(Merged.rows) = 2
    /\ Gdp(1) = Num(5000, 0) /\ Level(1) = "Low Income"
    /\ Gdp(2) = Num(50005, -1) /\ Level(2) = "Lower Middle"

\* C10: load once, read many: from a fresh DataProcessor and over calls of
\* get_metric_info, get_country_list and save_processed_data, the first call
\* loads the seven files once and then merges once, and every later call
\* leaves the datasets and the merged table as they are, without another
\* load or merge.
C10_LoadOnceReadMany ==
    [][/\ calls = 0 =>
            /\ loads = 0 /\ merges = 0 /\ merged_data = <<>>
            /\ loads' = 1 /\ merges' = 1 /\ log' = <<"load", "merge">>
            /\ Len(merged_data') = 1 /\ Len(datasets') = Len(DatasetNames)
       /\ calls > 0 =>
            /\ loads' = loads /\ merges' = merges /\ log' = log
            /\ merged_data' = merged_data /\ datasets' = datasets]_vars

\* a second call has returned after a save, with one load and one merge done
C10_Witness ==
    /\ calls >= 2
    /\ result.call = "get_country_list"
    /\ Len(saved) = 1
    /\ loads = 1 /\ merges = 1 /\ log = <<"load", "merge">>

-----------------------------------------------------------------------------
(* Claims about get_metric_info and get_country_list (checked under Spec) *)

MetricInfoReturned == result.call = "get_metric_info"
CategoryNames == <<"Geography", "Demographics", "Economy", "Energy",
                   "Infrastructure", "Communications">>

\* the cells of column col of the merged table that are not null
ValuesOf(col) ==
    {Merged.rows[i][col] : i \in {j \in 1..Len(Merged.rows) :
                                     ~IsNull(Merged.rows[j][col])}}

\* n times a number (an infinity stays what it is)
Times(c, n) == IF c.t = "num" THEN Num(c.m * n, c.e) ELSE c

\* lo <= mean <= hi, for a mean given as the pair [sum, n]
MeanBetween(mean, lo, hi) ==
    /\ LessEq(Times(lo, mean.n), mean.sum)
    /\ LessEq(mean.sum, Times(hi, mean.n))

\* an entry of the result describes column e.name of the merged table
EntryDescribesColumn(e) ==
    IF ValuesOf(e.name) = {}
    THEN e.min = Num(0, 0) /\ e.max = Num(0, 0) /\ e.mean.sum = Num(0, 0)
    ELSE /\ e.min \in ValuesOf(e.name)
         /\ \A v \in ValuesOf(e.name) : LessEq(e.min, v)
         /\ e.max \in ValuesOf(e.name)
         /\ \A v \in ValuesOf(e.name) : LessEq(v, e.max)
         /\ MeanBetween(e.mean, e.min, e.max)

CountryListReturned == result.call = "get_country_list"

\* C14: get_country_list returns every non-null Country value of the merged
\* table exactly once, in ascending order: the list is strictly ascending
\* (so it has no duplicate), holds no null, and its elements are the non-null
\* Country values of the merged table.
C14_CountryListSortedUnique ==
    CountryListReturned =>
        /\ \A i \in 1..(Len(result.value) - 1) :
              TextLess(result.value[i], result.value[i + 1])
        /\ \A i, j \in 1..Len(result.value) :
              result.value[i] = result.value[j] => i = j
        /\ Range(result.value) =
              {Merged.rows[i]["Country"].s :
                  i \in {j \in 1..Len(Merged.rows) :
                            Merged.rows[j]["Country"].t = "str"}}

\* the merged table has Peru in two rows and Chad in one, and the list
\* returned is Chad, Peru
C14_Witness ==
    /\ CountryListReturned
    /\ Cardinality({i \in 1..Len(Merged.rows) :
                       Merged.rows[i]["Country"].s = K_Peru}) >= 2
    /\ \E i \in 1..Len(Merged.rows) : Merged.rows[i]["Country"].s = K_Chad
    /\ result.value = <<K_Chad, K_Peru>>

-----------------------------------------------------------------------------
(* Claims about the map-click selection (checked under SpecSelect) *)

NoDuplicate(list) ==
    \A i, j \in 1..Len(list) : list[i] = list[j] => i = j

\* the last invocation of store_selected_country accepted its click
Accepted == Len(click) = 1 /\ ~prevented

\* C16: the selection is bounded and duplicate-free: from the initial value
\* [], after any sequence of store_selected_country invocations,
\* selected-countries has at most 5 elements and holds no country twice.
C16_SelectionBounded ==
    /\ Len(selected_countries) <= 5
    /\ NoDuplicate(selected_countries)

\* six countries have been clicked: the list holds the last five
C16_Witness ==
    /\ selected_countries = <<"Chad", "Fiji", "Oman", "Cuba", "Mali">>
    /\ selected_country = <<"Mali">>

\* C17: after a click that store_selected_country accepts, selected-country
\* is the clicked country (the 'text' of the first point) and that country
\* is in selected-countries; in every reachable state selected-country is
\* None or an element of selected-countries.
C17_SelectedIsMember ==
    /\ Accepted =>
          /\ click[1].points[1].text # ""
          /\ selected_country = <<click[1].points[1].text>>
          /\ click[1].points[1].text \in Range(selected_countries)
    /\ selected_country = <<>> \/ selected_country[1] \in Range(selected_countries)

\* a seventh click, on the country evicted by the sixth, has been accepted:
\* it is selected and in the list
C17_Witness ==
    /\ Accepted
    /\ click[1].points[1].text = "Peru"
    /\ selected_country = <<"Peru">>
    /\ selected_countries = <<"Fiji", "Oman", "Cuba", "Mali", "Peru">>

\* C18: eviction is in first-inserted order and a re-click does not refresh:
\* an accepted click on a country already in selected-countries leaves the
\* list as it is, and an accepted click on a new country when the list holds
\* 5 removes the element at the front and appends the new one at the end.
C18_FifoEviction ==
    [][(click' # click \/ selected_country' # selected_country) =>
         /\ (~prevented' /\ selected_country'[1] \in Range(selected_countries))
               => selected_countries' = selected_countries
         /\ (~prevented' /\ selected_country'[1] \notin Range(selected_countries)
             /\ Len(selected_countries) = 5)
               => selected_countries' =
                     Append(Tail(selected_countries), selected_country'[1])]_vars

\* after an eviction the country now at the front has been clicked again: it
\* is selected and still at the front
C18_Witness ==
    /\ Accepted
    /\ selected_countries = <<"Chad", "Fiji", "Oman", "Cuba", "Mali">>
    /\ selected_country = <<"Chad">>

\* the click data carries a country: it has 'points', a first point that is a
\* dict, and that point has a non-empty 'text'
Usable(cdata) ==
    /\ Len(cdata) = 1
    /\ cdata[1].has_points
    /\ Len(cdata[1].points) > 0
    /\ cdata[1].points[1].is_dict
    /\ cdata[1].points[1].has_text
    /\ cdata[1].points[1].text # ""

\* C19: a click without a usable country (empty click data, a first point
\* without 'text', a malformed structure) changes nothing:
\* store_selected_country raises PreventUpdate and selected-country and
\* selected-countries keep their values.
C19_UnusableClickChangesNothing ==
    [][(click' # click \/ prevented' # prevented) =>
         /\ ~Usable(click') => prevented'
         /\ prevented' => /\ selected_country' = selected_country
                          /\ selected_countries' = selected_countries]_vars

\* with two countries selected, a click whose first point has no 'text' has
\* been refused
C19_Witness ==
    /\ prevented
    /\ click = ClickOn(<<[is_dict |-> TRUE, has_text |-> FALSE, text |-> ""]>>)
    /\ selected_country = <<"Chad">>
    /\ selected_countries = <<"Peru", "Chad">>

\* C20: the comparison selector follows the map selection: when
\* sync_comparison_countries has run after an accepted click, the value of
\* countries-selector is the selected-countries list, whatever the user had
\* chosen; when selected-countries is empty it leaves the value as it is.
C20_SelectorFollowsSelection ==
    [][/\ sync' = "done" =>
            /\ countries_selector' = selected_countries'
            /\ Len(selected_countries') > 0
       /\ (sync' = "no_update" /\ sync # "no_update") =>
            /\ Len(selected_countries) = 0
            /\ countries_selector' = countries_selector]_vars

\* the user had chosen Fiji; after two clicks on the map and the sync the
\* dropdown holds the two clicked countries
C20_Witness ==
    /\ sync = "done"
    /\ selected_countries = <<"Peru", "Chad">>
    /\ countries_selector = <<"Peru", "Chad">>


-----------------------------------------------------------------------------
(* The application: the shared table, the runner and the chart callbacks.   *)

\* C11: merged_data is read-many.  Once the server runs, no step of a
\* callback registered by register_callbacks changes the shared merged
\* table: filters and rank columns are applied to copies of it.
C11_CallbacksLeaveMergedData ==
    [][rpc = "serving" => merged_data' = merged_data]_vars

\* a callback has worked on a filtered frame with fewer rows than the shared
\* table, which still has all of its rows
C11_Witness ==
    /\ rpc = "serving"
    /\ last.callback = "update_insights"
    /\ last.kind = "value"
    /\ 0 < last.rows
    /\ last.rows < Len(Merged.rows)
    /\ Len(Merged.rows) >= Len(files["geography"].rows)

\* C13: when run_app.py has imported app without an exception and the
\* runner process has ended, app.run_server was invoked with the configured
\* host and port.
C13_RunnerStartsServer ==
    (entry = "run_app.py" /\ rpc = "exited" /\ exit_code = <<0>>)
        => server = <<[host |-> env.HOST, port |-> env.PORT]>>

\* C15: with the VisualizationFactory of visualizations.py, each of the nine
\* chart callbacks returns a figure (the chart or the _safe_figure
\* placeholder) for every input; no exception propagates.
C15_ChartCallbacksReturnFigures ==
    last.callback \in ChartCallbacks => last.kind \in {"figure", "placeholder"}


\* the names of the metrics of the category at position k of metrics_info
NamesAt(k) == [j \in 1..Len(metrics_info[k][2]) |-> metrics_info[k][2][j].name]

\* C21: update_metric_options keeps the metric selector consistent with the
\* domain.  The options are the metrics of the domain when it is a key of
\* metrics_info, else (None or unknown) those of the first domain; the value
\* is the first option, or None when there is no option, so the selected
\* metric is one of the options offered.
C21_MetricSelectorFollowsDomain ==
    last.callback = "update_metric_options" =>
        /\ last.kind = "value"
        /\ \A k \in 1..Len(metrics_info) :
              metrics_info[k][1] = last.out.domain
                 => last.out.returned.options = NamesAt(k)
        /\ (\A k \in 1..Len(metrics_info) :
               metrics_info[k][1] # last.out.domain)
              => last.out.returned.options = NamesAt(1)
        /\ last.out.returned.value =
              IF last.out.returned.options = <<>> THEN ""
              ELSE last.out.returned.options[1]
        /\ last.out.returned.options # <<>>
              => last.out.returned.value \in Range(last.out.returned.options)

\* the callback has answered for a domain that is not the first, with two
\* options that differ from those of the first domain
C21_Witness ==
    /\ last.callback = "update_metric_options"
    /\ last.out.domain = "Economy"
    /\ Len(last.out.returned.options) = 2
    /\ last.out.returned.options # NamesAt(1)
    /\ last.out.returned.value = "Real_GDP_per_Capita_USD"

\* the callback has answered for no domain and for an unknown one with the
\* options of the first domain, and with none when that domain has none
C21_WitnessFallback ==
    /\ last.callback = "update_metric_options"
    /\ last.out.domain \in {"", "History"}
    /\ last.out.returned.options = <<>>
    /\ last.out.returned.value = ""

====
